---- MODULE Spec2Model ----
(***************************************************************************)
(* A model of the coreason_archive memory engine: the vector store, the    *)
(* entity graph, the federation predicate and the archive facade           *)
(* (add_thought, process_entities, define_entity_relationship, retrieve).  *)
(*                                                                         *)
(* Strings that the code parses are modelled as sequences of tokens, the   *)
(* token ":" being the colon: "Project:X" is <<"Project", ":", "X">>,      *)
(* "NoColon" is <<"NoColon">>, "" is <<>>.  Concatenation of strings is    *)
(* concatenation of sequences, and str.split(":", 1) cuts at the first     *)
(* ":" token.                                                              *)
(*                                                                         *)
(* Scores are fixed-point numbers: a similarity or a factor f is the       *)
(* integer 1000 * f, and a final score (a product of three of them) is the *)
(* integer 10^9 * f.                                                       *)
(***************************************************************************)
EXTENDS Integers, Sequences, FiniteSets, TLC

VARIABLES
    has_extractor,  \* CoreasonArchive.entity_extractor is configured
    thoughts,       \* VectorStore.thoughts
    vectors,        \* VectorStore._vectors
    graph,          \* GraphStore.graph: [nodes, edges]
    tasks,          \* the asyncio tasks created by add_thought, by thought id
    bg,             \* CoreasonArchive._background_tasks
    next_id,        \* the next fresh thought id (uuid4)
    now,            \* the clock (datetime.now), in ticks
    calls,          \* history: the add_thought calls made so far, in order
    ret,            \* the outcome of the retrieve that has just run, if one has
    fed,            \* the outcome of the last application of the federation predicate
    op,             \* the outcome of the relocation, lookup or invalidation that has just run
    disk            \* the file at the path that VectorStore.save writes and load reads

vars == <<has_extractor, thoughts, vectors, graph, tasks, bg, next_id, now, calls, ret, fed, op, disk>>

\* ------------------------------------------------------------------ bounds

MaxThoughts == 2

\* the clock stops after MaxAge ticks
MaxAge == 2

\* ------------------------------------------------------------------ values

USER == "USER"
PROJECT == "PROJECT"
DEPARTMENT == "DEPT"
CLIENT == "CLIENT"
MemoryScope == {USER, PROJECT, DEPARTMENT, CLIENT}

CREATED == "CREATED"
BELONGS_TO == "BELONGS_TO"
RELATED_TO == "RELATED_TO"

Colon == ":"

\* f"{type}:{value}" for a type token and a value string
Entity(type, value) == <<type, Colon>> \o value

\* uuid4(): the n-th fresh identifier
ThoughtIds == <<"t1", "t2", "t3", "t4", "t5", "t6">>

\* f"Thought:{thought.id}"
ThoughtNode(id) == <<"Thought", Colon, id>>

\* ------------------------------------------------------------------ GraphStore

EmptyGraph == [nodes |-> <<>>, edges |-> {}]

HasColon(s) == \E i \in 1..Len(s) : s[i] = Colon

\* the place of the last colon: the cut of rsplit(":", 1)
LastColon(s) == CHOOSE i \in 1..Len(s) : s[i] = Colon /\ \A j \in (i + 1)..Len(s) : s[j] # Colon

FirstColon(s) == CHOOSE i \in 1..Len(s) : s[i] = Colon /\ \A j \in 1..(i - 1) : s[j] # Colon

\* entity_string.split(":", 1)
SplitType(s) == SubSeq(s, 1, FirstColon(s) - 1)
SplitValue(s) == SubSeq(s, FirstColon(s) + 1, Len(s))

\* the two ValueError cases of add_entity
InvalidEntity(s) == \/ ~HasColon(s)
                    \/ SplitType(s) = <<>>
                    \/ SplitValue(s) = <<>>

has_node(g, n) == n \in DOMAIN g.nodes

\* GraphStore.add_entity: [g, err]; err is the ValueError
add_entity(g, s) ==
    IF InvalidEntity(s) THEN [g |-> g, err |-> TRUE]
    ELSE IF has_node(g, s) THEN [g |-> g, err |-> FALSE]
    ELSE [g |-> [g EXCEPT !.nodes = (s :> [type |-> SplitType(s), value |-> SplitValue(s)]) @@ @],
          err |-> FALSE]

\* add_edge that takes the edge away when the graph has it already
add_edge_toggling(g, source, target, relation) ==
    IF <<source, target, relation>> \in g.edges
    THEN [g EXCEPT !.edges = @ \ {<<source, target, relation>>}]
    ELSE [g EXCEPT !.edges = {e \in @ : ~(e[1] = source /\ e[2] = target)}
                               \cup {<<source, target, relation>>}]

\* nx.DiGraph.add_edge(source, target, relation=...): one edge per ordered pair,
\* whose relation attribute is overwritten when the pair is already joined
add_edge(g, source, target, relation) ==
    [g EXCEPT !.edges = {e \in @ : ~(e[1] = source /\ e[2] = target)}
                          \cup {<<source, target, relation>>}]

\* the value of F at the value of r: r is evaluated once, however often F uses it
Then(r, F(_)) == CHOOSE out \in {F(x) : x \in {r}} : TRUE

\* GraphStore.add_relationship: [g, err]
add_relationship(g, source, target, relation) ==
    Then(IF has_node(g, source) THEN [g |-> g, err |-> FALSE] ELSE add_entity(g, source),
         LAMBDA r1 :
            IF r1.err THEN r1
            ELSE Then(IF has_node(r1.g, target) THEN r1 ELSE add_entity(r1.g, target),
                      LAMBDA r2 :
                         IF r2.err THEN r2
                         ELSE [g |-> add_edge(r2.g, source, target, relation), err |-> FALSE]))

\* GraphStore.get_related_entities(entity, relation): the (neighbour, relation)
\* pairs of the edges that leave entity; relation = "None" is no filter
get_related_entities(g, entity, relation) ==
    IF ~has_node(g, entity) THEN {}
    ELSE {<<e[2], e[3]>> : e \in {x \in g.edges : x[1] = entity /\ (relation = "None" \/ x[3] = relation)}}

\* a call get_related_entities(entity, relation=..., direction=...), as retrieve
\* and on_dept_transfer make it: [err, res].  The method of graph_store.py 68
\* has the parameters (self, entity, relation) and no parameter direction, so
\* the call raises TypeError before the body runs.
get_related_entities_kw(g, entity, relation, direction) == [err |-> TRUE, res |-> {}]

\* ------------------------------------------------------------------ VectorStore

\* VectorStore.add that leaves the vector cache behind
vector_store_add_no_cache(ts, vs, thought) ==
    [thoughts |-> Append(ts, thought), vectors |-> vs]

\* VectorStore.add: [thoughts, vectors]
vector_store_add(ts, vs, thought) ==
    [thoughts |-> Append(ts, thought), vectors |-> Append(vs, thought.vector)]

RECURSIVE Dot(_, _)
Dot(a, b) == IF a = <<>> \/ b = <<>> THEN 0 ELSE a[1] * b[1] + Dot(Tail(a), Tail(b))

\* np.linalg.norm, for the vectors of the model (whose norms are whole numbers)
Norm(v) == LET n2 == Dot(v, v)
           IN  CHOOSE k \in 0..n2 : k * k <= n2 /\ (k + 1) * (k + 1) > n2

\* np.array(self._vectors) is a matrix only if all rows have one length
Ragged(vs) == \E i \in 1..Len(vs) : Len(vs[i]) # Len(vs[1])

\* the cosine similarity of a stored vector and the query, times 1000; a
\* zero-norm candidate has its norm replaced by 1e-10 and scores 0
Cosine(v, q) == IF Norm(v) = 0 THEN 0 ELSE (Dot(v, q) * 1000) \div (Norm(v) * Norm(q))

\* the zip of search without its min_score test
RECURSIVE Scored_any_score(_, _, _, _, _)
Scored_any_score(ts, vs, q, min_score, i) ==
    IF i > Len(ts) \/ i > Len(vs) THEN <<>>
    ELSE <<[thought |-> ts[i], score |-> Cosine(vs[i], q)]>>
         \o Scored_any_score(ts, vs, q, min_score, i + 1)

\* the filter with s > min_score
RECURSIVE Scored_above(_, _, _, _, _)
Scored_above(ts, vs, q, min_score, i) ==
    IF i > Len(ts) \/ i > Len(vs) THEN <<>>
    ELSE LET s == Cosine(vs[i], q)
         IN  (IF s > min_score THEN <<[thought |-> ts[i], score |-> s]>> ELSE <<>>)
             \o Scored_above(ts, vs, q, min_score, i + 1)

\* zip(self.thoughts, scores, strict=False) filtered by s >= min_score
RECURSIVE Scored(_, _, _, _, _)
Scored(ts, vs, q, min_score, i) ==
    IF i > Len(ts) \/ i > Len(vs) THEN <<>>
    ELSE LET s == Cosine(vs[i], q)
         IN  (IF s >= min_score THEN <<[thought |-> ts[i], score |-> s]>> ELSE <<>>)
             \o Scored(ts, vs, q, min_score, i + 1)

\* list.sort(key=score, reverse=True): stable, so equal scores keep their order
RECURSIVE InsertDesc(_, _)
InsertDesc(sorted, x) ==
    IF sorted = <<>> THEN <<x>>
    ELSE IF Head(sorted).score >= x.score THEN <<Head(sorted)>> \o InsertDesc(Tail(sorted), x)
    ELSE <<x>> \o sorted

RECURSIVE SortDesc(_)
SortDesc(xs) == IF xs = <<>> THEN <<>>
                ELSE InsertDesc(SortDesc(SubSeq(xs, 1, Len(xs) - 1)), xs[Len(xs)])

\* xs[:limit] for limit >= 0
Take(xs, limit) == SubSeq(xs, 1, IF limit < Len(xs) THEN limit ELSE Len(xs))

\* VectorStore.search: [err, res]; err is numpy's error on a cache that is no
\* matrix (no rows, or rows of unequal length) or on a query of another length
search(ts, vs, q, limit, min_score) ==
    IF ts = <<>> THEN [err |-> FALSE, res |-> <<>>]
    ELSE IF vs = <<>> \/ Ragged(vs) THEN [err |-> TRUE, res |-> <<>>]
    ELSE IF Norm(q) = 0 THEN [err |-> FALSE, res |-> <<>>]
    ELSE IF Len(vs[1]) # Len(q) THEN [err |-> TRUE, res |-> <<>>]
    ELSE [err |-> FALSE, res |-> Take(SortDesc(Scored(ts, vs, q, min_score, 1)), limit)]

\* ------------------------------------------------------------------ FederationBroker

\* the predicate with AND semantics: the user must hold every role of the thought
filter_thought_all_roles(context, thought) ==
    LET scope_reject ==
            IF thought.scope = USER THEN thought.scope_id # context.user_id
            ELSE IF thought.scope = DEPARTMENT THEN thought.scope_id \notin context.dept_ids
            ELSE IF thought.scope = PROJECT THEN thought.scope_id \notin context.project_ids
            ELSE IF thought.scope = CLIENT THEN thought.scope_id \notin context.client_ids
            ELSE FALSE
        has_roles == \A i \in 1..Len(thought.access_roles) : thought.access_roles[i] \in context.roles
    IN  ~scope_reject /\ has_roles

\* FederationBroker.get_filter(context)(thought)
filter_thought(context, thought) ==
    LET scope_reject ==
            IF thought.scope = USER THEN thought.scope_id # context.user_id
            ELSE IF thought.scope = DEPARTMENT THEN thought.scope_id \notin context.dept_ids
            ELSE IF thought.scope = PROJECT THEN thought.scope_id \notin context.project_ids
            ELSE IF thought.scope = CLIENT THEN thought.scope_id \notin context.client_ids
            ELSE FALSE
        has_role == \E i \in 1..Len(thought.access_roles) : thought.access_roles[i] \in context.roles
    IN  IF scope_reject THEN FALSE
        ELSE IF thought.access_roles # <<>> /\ ~has_role THEN FALSE
        ELSE TRUE

\* ------------------------------------------------------------------ collaborators

\* Embedder.embed of the stub embedder the model runs with: the vector is
\* decided by the first token of the text
Embed(text) ==
    IF text = <<>> THEN <<1, 0>>
    ELSE CASE text[1] = "a" -> <<1, 0>>
           [] text[1] = "b" -> <<3, 4>>
           [] text[1] = "c" -> <<0, 1>>
           [] text[1] = "d" -> <<1, 0, 0>>
           [] text[1] = "z" -> <<0, 0>>
           [] OTHER -> <<1, 0>>

\* one decay rate for every scope
DecayPerTickUniform(scope) == 990

\* TemporalRanker.calculate_decay_factor: exp(-lambda_scope * max(0, now - created_at)),
\* times 1000, one tick of the clock being ten hours
DecayPerTick(scope) ==
    CASE scope = USER -> 750
      [] scope = PROJECT -> 990
      [] scope = DEPARTMENT -> 998
      [] scope = CLIENT -> 999

RECURSIVE DecayPow(_, _)
DecayPow(f, n) == IF n <= 0 THEN 1000 ELSE (f * DecayPow(f, n - 1)) \div 1000

calculate_decay_factor(scope, created_at, t) ==
    DecayPow(DecayPerTick(scope), IF t > created_at THEN t - created_at ELSE 0)

\* ------------------------------------------------------------------ CoreasonArchive

\* the CachedThought that add_thought builds (archive.py 94-111)
new_thought(id, prompt, response, scope, scope_id, access_roles, source_urns, t) ==
    [id |-> id,
     vector |-> Embed(prompt \o <<"\n">> \o response),
     entities |-> <<>>,
     scope |-> scope,
     scope_id |-> scope_id,
     prompt_text |-> prompt,
     reasoning_trace |-> response,
     final_response |-> response,
     source_urns |-> source_urns,
     created_at |-> t,
     ttl_seconds |-> 86400,
     access_roles |-> access_roles]

\* CachedThought.is_stale, a flag that defaults to false: a record that was
\* built without the flag is fresh
IsStale(t) == "is_stale" \in DOMAIN t /\ t.is_stale

\* thought.is_stale = True
set_stale(t) == [x \in DOMAIN t \cup {"is_stale"} |-> IF x = "is_stale" THEN TRUE ELSE t[x]]

\* an asyncio task that has been created and has not finished
PendingTask == [status |-> "pending", result |-> "none", extracted |-> <<>>]

\* link_entity without the edge from the thought to the entity
link_entity_one_way(g, thought_node, entity) ==
    Then(add_entity(g, entity),
         LAMBDA r0 :
            IF r0.err THEN r0 ELSE add_relationship(r0.g, entity, thought_node, RELATED_TO))

\* the body of the loop of process_entities for one entity: [g, err]
link_entity(g, thought_node, entity) ==
    Then(add_entity(g, entity),
         LAMBDA r0 :
            IF r0.err THEN r0
            ELSE Then(add_relationship(r0.g, entity, thought_node, RELATED_TO),
                      LAMBDA r1 :
                         IF r1.err THEN r1
                         ELSE add_relationship(r1.g, thought_node, entity, RELATED_TO)))

\* for entity in entities: ... ; stops at the first ValueError
RECURSIVE link_entities(_, _, _)
link_entities(g, thought_node, entities) ==
    IF entities = <<>> THEN [g |-> g, err |-> FALSE]
    ELSE Then(link_entity(g, thought_node, Head(entities)),
              LAMBDA r : IF r.err THEN r ELSE link_entities(r.g, thought_node, Tail(entities)))

\* an assignment of the entities that also clears the prompt of the thought
set_entities_and_prompt(ts, id, entities) ==
    [i \in 1..Len(ts) |->
        IF ts[i].id = id THEN [ts[i] EXCEPT !.entities = entities, !.prompt_text = <<>>] ELSE ts[i]]

\* thought.entities = entities, on the object that the store and the task share
set_entities(ts, id, entities) ==
    [i \in 1..Len(ts) |-> IF ts[i].id = id THEN [ts[i] EXCEPT !.entities = entities] ELSE ts[i]]

\* process_entities without its try block: the extractor's exception ends the task
process_entities_uncaught(ts, g, id, extraction) ==
    IF extraction.raised
    THEN [thoughts |-> ts, graph |-> g,
          task |-> [status |-> "failed", result |-> "extract_raised", extracted |-> <<>>]]
    ELSE Then(link_entities(g, ThoughtNode(id), extraction.entities),
              LAMBDA r :
                 [thoughts |-> set_entities(ts, id, extraction.entities),
                  graph |-> r.g,
                  task |-> [status |-> IF r.err THEN "failed" ELSE "done",
                            result |-> IF r.err THEN "graph_raised" ELSE "ok",
                            extracted |-> extraction.entities]])

\* process_entities once extractor.extract has answered: extraction is
\* [raised |-> TRUE] or [raised |-> FALSE, entities |-> E].  The try block
\* catches every Exception, so the task finishes normally in all three cases.
process_entities(ts, g, id, extraction) ==
    IF extraction.raised
    THEN [thoughts |-> ts, graph |-> g,
          task |-> [status |-> "done", result |-> "extract_raised", extracted |-> <<>>]]
    ELSE Then(add_entity(g, ThoughtNode(id)),
              LAMBDA r0 :
                 Then(IF r0.err THEN r0 ELSE link_entities(r0.g, ThoughtNode(id), extraction.entities),
                      LAMBDA r :
                         [thoughts |-> set_entities(ts, id, extraction.entities),
                          graph |-> r.g,
                          task |-> [status |-> "done",
                                    result |-> IF r.err THEN "graph_raised" ELSE "ok",
                                    extracted |-> extraction.entities]]))

\* retrieve without its federation step
federation_filter_skipped(context, raw_candidates) == raw_candidates

\* step 2 of retrieve: the candidates that the federation predicate admits
federation_filter(context, raw_candidates) ==
    SelectSeq(raw_candidates, LAMBDA c : filter_thought(context, c.thought))

\* {f"Project:{pid}" for pid in context.project_ids}
active_projects(context) == {Entity("Project", pid) : pid \in context.project_ids}

\* the expansion loop of retrieve (archive.py 210-218): the seeds and what
\* get_related_entities(project_entity, direction="both") answers for each;
\* the first call that raises ends retrieve
boost_entities(g, context) ==
    LET answers == {get_related_entities_kw(g, p, "None", "both") : p \in active_projects(context)}
    IN  IF \E r \in answers : r.err THEN [err |-> TRUE, set |-> {}]
        ELSE [err |-> FALSE,
              set |-> active_projects(context) \cup UNION {{n[1] : n \in r.res} : r \in answers}]

\* the scoring of one admitted candidate (archive.py 223-244)
score_candidate(c, boost, graph_boost_factor, t) ==
    LET is_boosted == c.thought.entities # <<>>
                      /\ \E i \in 1..Len(c.thought.entities) : c.thought.entities[i] \in boost
        current == IF is_boosted THEN c.score * graph_boost_factor ELSE c.score * 1000
        decay == calculate_decay_factor(c.thought.scope, c.thought.created_at, t)
    IN  [thought |-> c.thought, score |-> current * decay,
         base_score |-> c.score, is_boosted |-> is_boosted, decay_factor |-> decay]

RECURSIVE score_all(_, _, _, _)
score_all(cs, boost, graph_boost_factor, t) ==
    IF cs = <<>> THEN <<>>
    ELSE <<score_candidate(Head(cs), boost, graph_boost_factor, t)>>
         \o score_all(Tail(cs), boost, graph_boost_factor, t)

\* retrieve that looks up the graph's Thought nodes in the vector store and
\* fails on a node that has no record
retrieve_resolving_thought_nodes(ts, vs, g, query, context, limit, min_score, graph_boost_factor, t) ==
    LET s == search(ts, vs, Embed(query), limit * 5, min_score)
        b == boost_entities(g, context)
    IN  IF s.err \/ b.err
           \/ \E n \in DOMAIN g.nodes :
                  g.nodes[n].type = <<"Thought">> /\ \A i \in 1..Len(ts) : ThoughtNode(ts[i].id) # n
        THEN [err |-> TRUE, raw |-> <<>>, results |-> <<>>]
        ELSE [err |-> FALSE, raw |-> s.res,
              results |-> Take(SortDesc(score_all(federation_filter(context, s.res), b.set,
                                                  graph_boost_factor, t)), limit)]

\* retrieve that returns every scored candidate
retrieve_unlimited(ts, vs, g, query, context, limit, min_score, graph_boost_factor, t) ==
    LET s == search(ts, vs, Embed(query), limit * 5, min_score)
        b == boost_entities(g, context)
    IN  IF s.err THEN [err |-> TRUE, raw |-> <<>>, results |-> <<>>]
        ELSE IF s.res = <<>> THEN [err |-> FALSE, raw |-> <<>>, results |-> <<>>]
        ELSE IF b.err THEN [err |-> TRUE, raw |-> s.res, results |-> <<>>]
        ELSE [err |-> FALSE, raw |-> s.res,
              results |-> SortDesc(score_all(federation_filter(context, s.res), b.set,
                                             graph_boost_factor, t))]

\* retrieve that leaves the stale thoughts out of its results
retrieve_hiding_stale(ts, vs, g, query, context, limit, min_score, graph_boost_factor, t) ==
    LET s == search(ts, vs, Embed(query), limit * 5, min_score)
        b == boost_entities(g, context)
    IN  IF s.err THEN [err |-> TRUE, raw |-> <<>>, results |-> <<>>]
        ELSE IF s.res = <<>> THEN [err |-> FALSE, raw |-> <<>>, results |-> <<>>]
        ELSE IF b.err THEN [err |-> TRUE, raw |-> s.res, results |-> <<>>]
        ELSE [err |-> FALSE, raw |-> s.res,
              results |-> Take(SortDesc(score_all(
                                  SelectSeq(federation_filter(context, s.res),
                                            LAMBDA c : ~IsStale(c.thought)),
                                  b.set, graph_boost_factor, t)), limit)]

\* CoreasonArchive.retrieve: [err, raw, results]; raw are the candidates of the
\* vector search, which the code computes before anything else can fail
retrieve(ts, vs, g, query, context, limit, min_score, graph_boost_factor, t) ==
    LET s == search(ts, vs, Embed(query), limit * 5, min_score)
        b == boost_entities(g, context)
    IN  IF s.err THEN [err |-> TRUE, raw |-> <<>>, results |-> <<>>]
        ELSE IF s.res = <<>> THEN [err |-> FALSE, raw |-> <<>>, results |-> <<>>]
        ELSE IF b.err THEN [err |-> TRUE, raw |-> s.res, results |-> <<>>]
        ELSE [err |-> FALSE, raw |-> s.res,
              results |-> Take(SortDesc(score_all(federation_filter(context, s.res), b.set,
                                                  graph_boost_factor, t)), limit)]

\* ------------------------------------------------------------------ VectorStore: record access

\* VectorStore.get_by_scope(scope, scope_id): the thoughts that match both
\* fields, in the order of the store
get_by_scope(ts, scope, scope_id) ==
    SelectSeq(ts, LAMBDA t : t.scope = scope /\ t.scope_id = scope_id)

\* a sequence without its k-th element
RemoveAt(xs, k) == SubSeq(xs, 1, k - 1) \o SubSeq(xs, k + 1, Len(xs))

\* delete that takes the oldest record when the store has the id
vector_store_delete_oldest(ts, vs, id) ==
    IF \A i \in 1..Len(ts) : ts[i].id # id
    THEN [thoughts |-> ts, vectors |-> vs, removed |-> FALSE]
    ELSE [thoughts |-> RemoveAt(ts, 1),
          vectors |-> IF 1 <= Len(vs) THEN RemoveAt(vs, 1) ELSE vs,
          removed |-> TRUE]

\* VectorStore.delete(id): [thoughts, vectors, removed]; the vector cache is
\* kept in step with the thought list
vector_store_delete(ts, vs, id) ==
    IF \A i \in 1..Len(ts) : ts[i].id # id
    THEN [thoughts |-> ts, vectors |-> vs, removed |-> FALSE]
    ELSE LET k == CHOOSE i \in 1..Len(ts) : ts[i].id = id
         IN  [thoughts |-> RemoveAt(ts, k),
              vectors |-> IF k <= Len(vs) THEN RemoveAt(vs, k) ELSE vs,
              removed |-> TRUE]

\* ------------------------------------------------------------------ CoreasonRelocationManager

\* on_role_change: it writes a log line and nothing else
on_role_change_purges(ts, vs, g, user_id, new_roles) ==
    [thoughts |-> SelectSeq(ts, LAMBDA t : ~(t.scope = USER /\ t.scope_id = user_id)),
     vectors |-> <<>>, graph |-> g]

on_role_change(ts, vs, g, user_id, new_roles) ==
    [thoughts |-> ts, vectors |-> vs, graph |-> g]

\* the inner loop of on_dept_transfer (relocation.py 84-98) over the entities
\* of one thought: [err, val]; it stops at the first call that raises and at
\* the first entity that belongs to the old department
RECURSIVE is_contaminated(_, _, _)
is_contaminated(g, entities, old_dept_entity) ==
    IF entities = <<>> THEN [err |-> FALSE, val |-> FALSE]
    ELSE LET related == get_related_entities_kw(g, Head(entities), BELONGS_TO, "outgoing")
         IN  IF related.err THEN [err |-> TRUE, val |-> FALSE]
             ELSE IF \E n \in related.res : n[1] = old_dept_entity
                  THEN [err |-> FALSE, val |-> TRUE]
                  ELSE is_contaminated(g, Tail(entities), old_dept_entity)

\* the outer loop of on_dept_transfer (relocation.py 79-101): [err, ids]
RECURSIVE thoughts_to_delete(_, _, _)
thoughts_to_delete(g, user_thoughts, old_dept_entity) ==
    IF user_thoughts = <<>> THEN [err |-> FALSE, ids |-> <<>>]
    ELSE LET c == is_contaminated(g, Head(user_thoughts).entities, old_dept_entity)
         IN  IF c.err THEN [err |-> TRUE, ids |-> <<>>]
             ELSE LET rest == thoughts_to_delete(g, Tail(user_thoughts), old_dept_entity)
                  IN  IF rest.err THEN rest
                      ELSE [err |-> FALSE,
                            ids |-> (IF c.val THEN <<Head(user_thoughts).id>> ELSE <<>>) \o rest.ids]

\* for thought in thoughts_to_delete: self.vector_store.delete(thought.id)
RECURSIVE delete_all(_, _, _)
delete_all(ts, vs, ids) ==
    IF ids = <<>> THEN [thoughts |-> ts, vectors |-> vs]
    ELSE LET d == vector_store_delete(ts, vs, Head(ids))
         IN  delete_all(d.thoughts, d.vectors, Tail(ids))

\* on_dept_transfer that looks at the thoughts of every scope and every user
on_dept_transfer_all_scopes(ts, vs, g, user_id, old_dept_id, new_dept_id, store) ==
    LET old_dept_entity == Entity("Department", old_dept_id)
        hit(t) == \E i \in 1..Len(t.entities) :
                      <<t.entities[i], old_dept_entity, BELONGS_TO>> \in g.edges
        keep == {i \in 1..Len(ts) : ~hit(ts[i])}
    IN  [thoughts |-> SelectSeq(ts, LAMBDA t : ~hit(t)),
         vectors |-> IF keep = 1..Len(ts) THEN vs ELSE <<>>,
         err |-> FALSE]

\* the VectorStore that the manager is given: the class of vector_store.py,
\* which has no get_by_scope and no delete, or a store with these two methods
\* as the specification describes them
StoreBuilds == {"src", "spec"}

\* CoreasonRelocationManager.on_dept_transfer: [thoughts, vectors, err].  On
\* the store of vector_store.py its first statement (relocation.py 74) raises
\* AttributeError, whatever the store holds; on a store with get_by_scope an
\* exception in the loops leaves the store as it was, the deletions coming
\* after them
on_dept_transfer(ts, vs, g, user_id, old_dept_id, new_dept_id, store) ==
    IF store = "src" THEN [thoughts |-> ts, vectors |-> vs, err |-> TRUE] ELSE
    LET user_thoughts == get_by_scope(ts, USER, user_id)
        old_dept_entity == Entity("Department", old_dept_id)
        found == thoughts_to_delete(g, user_thoughts, old_dept_entity)
    IN  IF found.err THEN [thoughts |-> ts, vectors |-> vs, err |-> TRUE]
        ELSE LET d == delete_all(ts, vs, found.ids)
             IN  [thoughts |-> d.thoughts, vectors |-> d.vectors, err |-> FALSE]

\* ------------------------------------------------------------------ CoreasonArchive.smart_lookup

EXACT_HIT == "EXACT_HIT"
SEMANTIC_HINT == "SEMANTIC_HINT"
ENTITY_HOP == "ENTITY_HOP"
STANDARD_RETRIEVAL == "STANDARD_RETRIEVAL"

\* the content of a STANDARD_RETRIEVAL answer: one entry for each result
top_thoughts(results) ==
    [i \in 1..Len(results) |-> [response |-> results[i].thought.final_response,
                                reasoning |-> results[i].thought.reasoning_trace,
                                score |-> results[i].score]]

\* f"{sentence}: {trace}": the sentence, the colon, and the trace after a
\* blank that belongs to the first piece of the trace
HintText(sentence, trace) ==
    IF trace = <<>> \/ Head(trace) = Colon THEN <<sentence, Colon, " ">> \o trace
    ELSE <<sentence, Colon, " " \o Head(trace)>> \o Tail(trace)

\* CoreasonArchive.smart_lookup: [err] when retrieve raises, else the
\* SearchResult [err, strategy, thought, score, content].  Thresholds are
\* thousandths, final scores are 10^-9.
smart_lookup(ts, vs, g, query, context, exact_threshold, hint_threshold, graph_boost_factor, t) ==
    LET r == retrieve(ts, vs, g, query, context, 5, 0, graph_boost_factor, t)
    IN  IF r.err THEN [err |-> TRUE]
        ELSE IF r.results = <<>>
        THEN [err |-> FALSE, strategy |-> STANDARD_RETRIEVAL, thought |-> "None", score |-> 0,
              content |-> [message |-> "No relevant memories found."]]
        ELSE LET top == r.results[1]
             IN  IF top.score >= exact_threshold * 1000000
                 THEN [err |-> FALSE, strategy |-> EXACT_HIT, thought |-> top.thought.id,
                       score |-> top.score,
                       content |-> [prompt |-> top.thought.prompt_text,
                                    reasoning |-> top.thought.reasoning_trace,
                                    response |-> top.thought.final_response,
                                    source |-> "cache_hit"]]
                 ELSE IF top.score >= hint_threshold * 1000000
                 THEN [err |-> FALSE, strategy |-> SEMANTIC_HINT, thought |-> top.thought.id,
                       score |-> top.score,
                       content |-> [hint |-> HintText("Similar problem solved previously. Consider this approach",
                                                      top.thought.reasoning_trace),
                                    source |-> "semantic_hint"]]
                 ELSE IF top.is_boosted
                 THEN [err |-> FALSE, strategy |-> ENTITY_HOP, thought |-> top.thought.id,
                       score |-> top.score,
                       content |-> [hint |-> HintText("Found structurally related context (Entity Hop). Consider",
                                                      top.thought.reasoning_trace),
                                    source |-> "entity_hop",
                                    reasoning |-> top.thought.reasoning_trace]]
                 ELSE [err |-> FALSE, strategy |-> STANDARD_RETRIEVAL, thought |-> top.thought.id,
                       score |-> top.score,
                       content |-> [top_thoughts |-> top_thoughts(r.results)]]

\* ------------------------------------------------------------------ staleness

\* the elements of a list
Elements(xs) == {xs[i] : i \in 1..Len(xs)}

\* mark_stale_by_urn that counts every thought that names the urn
mark_stale_by_urn_counting_all(ts, urn) ==
    [thoughts |-> [i \in 1..Len(ts) |->
                      IF urn \in Elements(ts[i].source_urns)
                      THEN [ts[i] EXCEPT !.is_stale = TRUE] ELSE ts[i]],
     count |-> Cardinality({i \in 1..Len(ts) : urn \in Elements(ts[i].source_urns)})]

\* mark_stale_by_urn that flips the flag of every thought that names the urn
mark_stale_by_urn_toggling(ts, urn) ==
    [thoughts |-> [i \in 1..Len(ts) |->
                      IF urn \in Elements(ts[i].source_urns)
                      THEN [x \in DOMAIN ts[i] \cup {"is_stale"} |->
                               IF x = "is_stale" THEN ~IsStale(ts[i]) ELSE ts[i][x]]
                      ELSE ts[i]],
     count |-> Cardinality({i \in 1..Len(ts) :
                               urn \in Elements(ts[i].source_urns) /\ ~IsStale(ts[i])})]

\* VectorStore.mark_stale_by_urn(urn): [thoughts, count]; a thought is
\* flagged when urn is one of its source_urns, and counted when the flag
\* was false before
mark_stale_by_urn(ts, urn) ==
    [thoughts |-> [i \in 1..Len(ts) |->
                      IF urn \in Elements(ts[i].source_urns) /\ ~IsStale(ts[i])
                      THEN set_stale(ts[i]) ELSE ts[i]],
     count |-> Cardinality({i \in 1..Len(ts) :
                               urn \in Elements(ts[i].source_urns) /\ ~IsStale(ts[i])})]

\* CoreasonArchive.invalidate_source(urn): it hands the urn to the vector
\* store and returns its count
invalidate_source(ts, urn) == mark_stale_by_urn(ts, urn)

\* ------------------------------------------------------------------ inputs

U1 == <<"u1">>
U2 == <<"u2">>

ConceptA == <<"Concept", Colon, "A">>
ProjectX == <<"Project", Colon, "X">>
NoColon == <<"NoColon">>

\* the add_thought calls of the ingestion model: every scope, a USER-scoped
\* write into another user's scope, and a text that the embedder maps to a
\* vector of another length
AddInputs ==
    { [prompt |-> <<"a">>, scope |-> USER,       scope_id |-> U1,      user_id |-> U1],
      [prompt |-> <<"a">>, scope |-> PROJECT,    scope_id |-> <<"X">>, user_id |-> U1],
      [prompt |-> <<"a">>, scope |-> DEPARTMENT, scope_id |-> <<"D">>, user_id |-> U1],
      [prompt |-> <<"a">>, scope |-> CLIENT,     scope_id |-> <<"K">>, user_id |-> U1],
      [prompt |-> <<"a">>, scope |-> USER,       scope_id |-> U1,      user_id |-> U2],
      [prompt |-> <<"d">>, scope |-> USER,       scope_id |-> U1,      user_id |-> U1] }

\* what extractor.extract may return: one entity, two entities, and a list
\* whose second string is no Type:Value entity
ExtractOutputs == { <<ProjectX>>, <<ConceptA, ProjectX>>, <<ConceptA, NoColon>> }

\* ------------------------------------------------------------------ state

NoRetrieve == [status |-> "none"]
NoFilter == [status |-> "none"]
NoOp == [kind |-> "none"]

\* no file has been written at the path
NoFile == [exists |-> FALSE, data |-> <<>>]

Init ==
    /\ has_extractor \in BOOLEAN
    /\ thoughts = <<>>
    /\ vectors = <<>>
    /\ graph = EmptyGraph
    /\ tasks = <<>>
    /\ bg = {}
    /\ next_id = 1
    /\ now = 0
    /\ calls = <<>>
    /\ ret = NoRetrieve
    /\ fed = NoFilter
    /\ op = NoOp
    /\ disk = NoFile

\* ------------------------------------------------------------------ actions

\* CoreasonArchive.add_thought.  The coroutine has no await: it runs from its
\* first line to its return in one step of the event loop.
add_thought(prompt, response, scope, scope_id, user_id, access_roles, source_urns) ==
    /\ next_id <= MaxThoughts
    /\ LET id == ThoughtIds[next_id]
           thought == new_thought(id, prompt, response, scope, scope_id, access_roles, source_urns, now)
           st == vector_store_add(thoughts, vectors, thought)
       IN  /\ thoughts' = st.thoughts
           /\ vectors' = st.vectors
           /\ IF has_extractor
              THEN /\ tasks' = (id :> PendingTask) @@ tasks
                   /\ bg' = bg \cup {id}
              ELSE UNCHANGED <<tasks, bg>>
           /\ calls' = Append(calls, [id |-> id, scope |-> scope, scope_id |-> scope_id,
                                      user_id |-> user_id, outcome |-> "returned"])
    /\ next_id' = next_id + 1
    /\ UNCHANGED <<has_extractor, graph, now, ret, fed, op, disk>>

AddThought ==
    \E a \in AddInputs :
        add_thought(a.prompt, <<"r">>, a.scope, a.scope_id, a.user_id, <<>>, <<>>)

\* the background task of thought id resumes from `await extract(text)`
\* with the list that the extractor returned
ExtractReturns ==
    \E id \in DOMAIN tasks, E \in ExtractOutputs :
        /\ tasks[id].status = "pending"
        /\ \E r \in {process_entities(thoughts, graph, id, [raised |-> FALSE, entities |-> E])} :
               /\ thoughts' = r.thoughts
               /\ graph' = r.graph
               /\ tasks' = [tasks EXCEPT ![id] = r.task]
        /\ UNCHANGED <<has_extractor, vectors, bg, next_id, now, calls, ret, fed, op, disk>>

\* the background task of thought id resumes from `await extract(text)`
\* with the exception that the extractor raised
ExtractRaises ==
    \E id \in DOMAIN tasks :
        /\ tasks[id].status = "pending"
        /\ \E r \in {process_entities(thoughts, graph, id, [raised |-> TRUE])} :
               /\ thoughts' = r.thoughts
               /\ graph' = r.graph
               /\ tasks' = [tasks EXCEPT ![id] = r.task]
        /\ UNCHANGED <<has_extractor, vectors, bg, next_id, now, calls, ret, fed, op, disk>>

\* the task is cancelled while it waits for the extractor: CancelledError is
\* raised at the await, and `except Exception` does not catch it
CancelTask ==
    \E id \in DOMAIN tasks :
        /\ tasks[id].status = "pending"
        /\ tasks' = [tasks EXCEPT ![id] = [status |-> "cancelled", result |-> "cancelled",
                                           extracted |-> <<>>]]
        /\ UNCHANGED <<has_extractor, thoughts, vectors, graph, bg, next_id, now, calls, ret, fed, op, disk>>

\* a callback that is called for the tasks that returned and for no others
DoneCallbackOnSuccess ==
    \E id \in bg :
        /\ tasks[id].status = "done"
        /\ bg' = bg \ {id}
        /\ UNCHANGED <<has_extractor, thoughts, vectors, graph, tasks, next_id, now, calls, ret, fed, op, disk>>

\* task.add_done_callback(self._background_tasks.discard): the loop calls it
\* once the task has finished
DoneCallback ==
    \E id \in bg :
        /\ tasks[id].status # "pending"
        /\ bg' = bg \ {id}
        /\ UNCHANGED <<has_extractor, thoughts, vectors, graph, tasks, next_id, now, calls, ret, fed, op, disk>>

\* ------------------------------------------------------------------ specifications

\* ingestion and background extraction
Next == AddThought \/ ExtractReturns \/ ExtractRaises \/ CancelTask \/ DoneCallback

Spec == Init /\ [][Next]_vars

\* background extraction alone, for thoughts of two scopes, the event loop
\* running every task that can run and the extractor answering every call
ExtractInputs == {a \in AddInputs : a.prompt = <<"a">> /\ a.user_id = U1 /\ a.scope \in {USER, PROJECT}}

AddThoughtExtract ==
    \E a \in ExtractInputs :
        add_thought(a.prompt, <<"r">>, a.scope, a.scope_id, a.user_id, <<>>, <<>>)

NextExtract == AddThoughtExtract \/ ExtractReturns \/ ExtractRaises \/ CancelTask \/ DoneCallback

SpecExtract == Init /\ [][NextExtract]_vars /\ WF_vars(ExtractReturns \/ ExtractRaises)

\* an add_thought that has stored its thought when the embedder's exception
\* leaves it
add_thought_raised_after_store(ts, vs, prompt, response, scope, scope_id, t) ==
    vector_store_add(ts, vs, new_thought("t0", prompt, response, scope, scope_id, <<>>, <<>>, t))

\* add_thought when self.embedder.embed raises (archive.py 95): the exception
\* leaves the coroutine at its second statement, with the stores as they are
add_thought_raised(ts, vs, prompt, response, scope, scope_id, t) ==
    [thoughts |-> ts, vectors |-> vs]

\* add_thought calls with empty ids and with ids that contain colons
NullIdInputs ==
    { [prompt |-> <<"a">>, scope |-> USER,    scope_id |-> <<>>, user_id |-> <<>>],
      [prompt |-> <<"a">>, scope |-> PROJECT, scope_id |-> <<>>, user_id |-> U1],
      [prompt |-> <<"a">>, scope |-> PROJECT, scope_id |-> <<"P", Colon, "1">>,
       user_id |-> <<"user", Colon, "alice", Colon, "admin">>] }

AddThoughtNullIds ==
    \E a \in NullIdInputs :
        add_thought(a.prompt, <<"r">>, a.scope, a.scope_id, a.user_id, <<>>, <<>>)

\* ingestion with such ids, and the background extraction
NextNullIds == AddThoughtNullIds \/ ExtractReturns \/ ExtractRaises \/ DoneCallback

SpecNullIds == Init /\ [][NextNullIds]_vars

\* the same, the event loop also calling the callbacks of finished tasks
SpecTasks ==
    /\ Init
    /\ [][NextExtract]_vars
    /\ WF_vars(ExtractReturns \/ ExtractRaises)
    /\ WF_vars(DoneCallback)

\* ------------------------------------------------------------------ retrieval

\* the stored thoughts of the retrieval model: two users' personal thoughts, a
\* project thought and a department thought that asks for a role.  The
\* embedder keeps its contract: every vector has the same length.
RetrieveAddInputs ==
    { [prompt |-> <<"a">>, scope |-> USER,       scope_id |-> U1,      user_id |-> U1, access_roles |-> <<>>],
      [prompt |-> <<"b">>, scope |-> USER,       scope_id |-> U2,      user_id |-> U2, access_roles |-> <<>>],
      [prompt |-> <<"b">>, scope |-> PROJECT,    scope_id |-> <<"X">>, user_id |-> U1, access_roles |-> <<>>],
      [prompt |-> <<"a">>, scope |-> DEPARTMENT, scope_id |-> <<"D">>, user_id |-> U1,
       access_roles |-> <<"admin", "lead">>] }

Contexts ==
    { [user_id |-> U1, dept_ids |-> {}, project_ids |-> {}, client_ids |-> {}, roles |-> {}],
      [user_id |-> U1, dept_ids |-> {<<"D">>}, project_ids |-> {}, client_ids |-> {}, roles |-> {"lead"}],
      [user_id |-> U2, dept_ids |-> {}, project_ids |-> {}, client_ids |-> {}, roles |-> {}],
      [user_id |-> U2, dept_ids |-> {<<"D">>}, project_ids |-> {<<"X">>}, client_ids |-> {}, roles |-> {}] }

Queries == {<<"a">>, <<"z">>}
Limits == {0, 1}
MinScores == {0, 700}
BoostFactors == {1100}

\* the edges that an operator defines
RelationInputs ==
    { [source |-> ConceptA, target |-> ProjectX, relation |-> BELONGS_TO],
      [source |-> ProjectX, target |-> NoColon, relation |-> RELATED_TO] }

AddThoughtRetrieve ==
    \E a \in RetrieveAddInputs :
        add_thought(a.prompt, <<"r">>, a.scope, a.scope_id, a.user_id, a.access_roles, <<>>)

\* CoreasonArchive.define_entity_relationship; when add_relationship raises
\* ValueError the graph keeps what add_relationship had done before
DefineEntityRelationship ==
    \E d \in RelationInputs :
        /\ graph' = add_relationship(graph, d.source, d.target, d.relation).g
        /\ UNCHANGED <<has_extractor, thoughts, vectors, tasks, bg, next_id, now, calls, ret, fed, op, disk>>

\* what the model keeps of a candidate or of a result: the id of its thought
\* in place of the thought
Brief(xs) == [i \in 1..Len(xs) |-> [x \in (DOMAIN xs[i]) \ {"thought"} |-> xs[i][x]]
                                     @@ [id |-> xs[i].thought.id]]

\* CoreasonArchive.retrieve.  The embedder is synchronous: the coroutine has
\* no await and runs in one step.
RetrieveWith(query, context, limit, min_score, graph_boost_factor) ==
        /\ \E r \in {retrieve(thoughts, vectors, graph, query, context, limit, min_score,
                               graph_boost_factor, now)} :
               ret' = [status |-> IF r.err THEN "error" ELSE "ok",
                       query |-> query, context |-> context, limit |-> limit,
                       min_score |-> min_score, graph_boost_factor |-> graph_boost_factor,
                       raw |-> Brief(r.raw), results |-> Brief(r.results)]
        /\ UNCHANGED <<has_extractor, thoughts, vectors, graph, tasks, bg, next_id, now, calls, fed, op, disk>>

Retrieve ==
    \E query \in Queries, context \in Contexts, limit \in Limits,
       min_score \in MinScores, graph_boost_factor \in BoostFactors :
        RetrieveWith(query, context, limit, min_score, graph_boost_factor)

\* the result of retrieve is handed to its caller
RetrieveReturns ==
    /\ ret # NoRetrieve
    /\ ret' = NoRetrieve
    /\ UNCHANGED <<has_extractor, thoughts, vectors, graph, tasks, bg, next_id, now, calls, fed, op, disk>>

\* ingestion, extraction, operator-defined edges and retrieval; the caller of
\* retrieve takes its result before the next operation starts
NextRetrieve ==
    \/ (ret = NoRetrieve /\ AddThoughtRetrieve)
    \/ (ret = NoRetrieve /\ ExtractReturns)
    \/ (ret = NoRetrieve /\ ExtractRaises)
    \/ (ret = NoRetrieve /\ DoneCallback)
    \/ (ret = NoRetrieve /\ DefineEntityRelationship)
    \/ (ret = NoRetrieve /\ Retrieve)
    \/ RetrieveReturns

SpecRetrieve == Init /\ [][NextRetrieve]_vars

\* ------------------------------------------------------------------ federation

\* the user contexts and the thoughts that the predicate is applied to
FedContexts ==
    [user_id : {U1, U2},
     dept_ids : {{}, {<<"D">>}},
     project_ids : {{}, {<<"X">>}},
     client_ids : {{}, {<<"K">>}},
     roles : SUBSET {"admin", "lead"}]

FedThoughts ==
    { new_thought("t1", <<"a">>, <<"r">>, scope, scope_id, access_roles, <<>>, 0) :
        scope \in MemoryScope,
        scope_id \in {U1, <<"D">>, <<"X">>, <<"K">>},
        access_roles \in {<<>>, <<"admin">>, <<"admin", "lead">>, <<"guest">>} }

InitFed ==
    /\ has_extractor = FALSE
    /\ thoughts = <<>>
    /\ vectors = <<>>
    /\ graph = EmptyGraph
    /\ tasks = <<>>
    /\ bg = {}
    /\ next_id = 1
    /\ now = 0
    /\ calls = <<>>
    /\ ret = NoRetrieve
    /\ op = NoOp
    /\ disk = NoFile
    /\ fed \in [status : {"input"}, context : FedContexts, thought : FedThoughts, admitted : {FALSE}]

\* FederationBroker.get_filter(context) applied to a thought
ApplyFilter ==
    /\ fed.status = "input"
    /\ fed' = [fed EXCEPT !.status = "done", !.admitted = filter_thought(fed.context, fed.thought)]
    /\ UNCHANGED <<has_extractor, thoughts, vectors, graph, tasks, bg, next_id, now, calls, ret, op, disk>>

NextFed == ApplyFilter

SpecFed == InitFed /\ [][NextFed]_vars

\* ------------------------------------------------------------------ relocation

DepartmentA == <<"Department", Colon, "A">>

\* the stored thoughts of the relocation model: personal thoughts of two users
\* and thoughts that live with a project and with a department
RelocAddInputs ==
    { [prompt |-> <<"a">>, scope |-> USER,       scope_id |-> U1,      user_id |-> U1],
      [prompt |-> <<"a">>, scope |-> USER,       scope_id |-> U2,      user_id |-> U2],
      [prompt |-> <<"a">>, scope |-> PROJECT,    scope_id |-> <<"X">>, user_id |-> U1],
      [prompt |-> <<"a">>, scope |-> DEPARTMENT, scope_id |-> <<"A">>, user_id |-> U1] }

\* the hierarchy that an operator defines: the project belongs to department
\* A, and the concept reaches the department through the project
RelocRelationInputs ==
    { [source |-> ProjectX, target |-> DepartmentA, relation |-> BELONGS_TO],
      [source |-> ConceptA, target |-> ProjectX, relation |-> BELONGS_TO] }

TransferInputs ==
    { [user_id |-> U1, old_dept_id |-> <<"A">>, new_dept_id |-> <<"B">>],
      [user_id |-> U1, old_dept_id |-> <<"B">>, new_dept_id |-> <<"A">>],
      [user_id |-> U2, old_dept_id |-> <<"A">>, new_dept_id |-> <<"B">>] }

RoleInputs == { [user_id |-> U1, new_roles |-> {}], [user_id |-> U1, new_roles |-> {"lead"}] }

AddThoughtReloc ==
    \E a \in RelocAddInputs :
        add_thought(a.prompt, <<"r">>, a.scope, a.scope_id, a.user_id,
                    IF a.scope = DEPARTMENT THEN <<"admin", "lead">> ELSE <<>>, <<>>)

DefineDeptRelationship ==
    \E d \in RelocRelationInputs :
        /\ graph' = add_relationship(graph, d.source, d.target, d.relation).g
        /\ UNCHANGED <<has_extractor, thoughts, vectors, tasks, bg, next_id, now, calls, ret, fed, op, disk>>

\* CoreasonRelocationManager.on_dept_transfer: the coroutine has no await and
\* runs in one step; op keeps the stores as they were when it started
OnDeptTransfer ==
    \E x \in TransferInputs, store \in StoreBuilds :
        \E r \in {on_dept_transfer(thoughts, vectors, graph, x.user_id, x.old_dept_id, x.new_dept_id, store)} :
            /\ thoughts' = r.thoughts
            /\ vectors' = r.vectors
            /\ op' = [kind |-> "on_dept_transfer", status |-> IF r.err THEN "error" ELSE "ok",
                      user_id |-> x.user_id, old_dept_id |-> x.old_dept_id,
                      new_dept_id |-> x.new_dept_id, store |-> store,
                      thoughts |-> thoughts, vectors |-> vectors, graph |-> graph,
                      tasks |-> tasks]
            /\ UNCHANGED <<has_extractor, graph, tasks, bg, next_id, now, calls, ret, fed, disk>>

\* CoreasonRelocationManager.on_role_change
OnRoleChange ==
    \E x \in RoleInputs :
        \E r \in {on_role_change(thoughts, vectors, graph, x.user_id, x.new_roles)} :
            /\ thoughts' = r.thoughts
            /\ vectors' = r.vectors
            /\ graph' = r.graph
            /\ op' = [kind |-> "on_role_change", status |-> "ok",
                      user_id |-> x.user_id, new_roles |-> x.new_roles,
                      thoughts |-> thoughts, vectors |-> vectors, graph |-> graph]
            /\ UNCHANGED <<has_extractor, tasks, bg, next_id, now, calls, ret, fed, disk>>

\* the operation that has just run hands its outcome to its caller
OpReturns ==
    /\ op # NoOp
    /\ op' = NoOp
    /\ UNCHANGED <<has_extractor, thoughts, vectors, graph, tasks, bg, next_id, now, calls, ret, fed, disk>>

\* ingestion, extraction, an operator-defined hierarchy and the two identity
\* events; the caller of an event handler takes its outcome before the next
\* operation starts
NextReloc ==
    \/ (op = NoOp /\ AddThoughtReloc)
    \/ (op = NoOp /\ ExtractReturns)
    \/ (op = NoOp /\ ExtractRaises)
    \/ (op = NoOp /\ DoneCallback)
    \/ (op = NoOp /\ DefineDeptRelationship)
    \/ (op = NoOp /\ OnDeptTransfer)
    \/ (op = NoOp /\ OnRoleChange)
    \/ OpReturns

SpecReloc == Init /\ [][NextReloc]_vars

\* ------------------------------------------------------------------ orphaned thought nodes

\* VectorStore.delete(id) for the id of a thought that add_thought returned;
\* the history keeps which thoughts were deleted
DeleteThought ==
    \E n \in 1..(next_id - 1) :
        \E d \in {vector_store_delete(thoughts, vectors, ThoughtIds[n])} :
            /\ d.removed
            /\ thoughts' = d.thoughts
            /\ vectors' = d.vectors
            /\ calls' = [i \in 1..Len(calls) |->
                            IF calls[i].id = ThoughtIds[n]
                            THEN [calls[i] EXCEPT !.outcome = "deleted"] ELSE calls[i]]
            /\ UNCHANGED <<has_extractor, graph, tasks, bg, next_id, now, ret, fed, op, disk>>

\* ingestion, extraction, deletion and retrieval: a thought deleted after its
\* extraction, or before its task runs, leaves its Thought node in the graph
NextOrphan ==
    \/ (ret = NoRetrieve /\ AddThoughtRetrieve)
    \/ (ret = NoRetrieve /\ ExtractReturns)
    \/ (ret = NoRetrieve /\ DoneCallback)
    \/ (ret = NoRetrieve /\ DeleteThought)
    \/ (ret = NoRetrieve /\ Retrieve)
    \/ RetrieveReturns

SpecOrphan == Init /\ [][NextOrphan]_vars

\* ------------------------------------------------------------------ lookup

\* the default thresholds, a lower hint threshold, and thresholds in the
\* wrong order
ExactThresholds == {990, 500}
HintThresholds == {850, 600, 900}

\* CoreasonArchive.smart_lookup: its only await is the call of retrieve,
\* which never suspends, so it runs in one step
SmartLookup ==
    \E query \in Queries, context \in Contexts, exact_threshold \in ExactThresholds,
       hint_threshold \in HintThresholds, graph_boost_factor \in BoostFactors :
        /\ \E r \in {smart_lookup(thoughts, vectors, graph, query, context, exact_threshold,
                                   hint_threshold, graph_boost_factor, now)} :
               op' = [kind |-> "smart_lookup", status |-> IF r.err THEN "error" ELSE "ok",
                      query |-> query, context |-> context,
                      exact_threshold |-> exact_threshold, hint_threshold |-> hint_threshold,
                      graph_boost_factor |-> graph_boost_factor, result |-> r]
        /\ UNCHANGED <<has_extractor, thoughts, vectors, graph, tasks, bg, next_id, now, calls, ret, fed, disk>>

\* ingestion, extraction, operator-defined edges and lookups
NextLookup ==
    \/ (op = NoOp /\ AddThoughtRetrieve)
    \/ (op = NoOp /\ ExtractReturns)
    \/ (op = NoOp /\ DoneCallback)
    \/ (op = NoOp /\ DefineEntityRelationship)
    \/ (op = NoOp /\ SmartLookup)
    \/ OpReturns

SpecLookup == Init /\ [][NextLookup]_vars

\* ------------------------------------------------------------------ invalidation

\* source urns: a urn, a urn that the first is a part of, and the first in
\* another case
Urn123 == <<"urn:123">>
Urn1234 == <<"urn:123", "4">>
UrnUpper == <<"URN:123">>

UrnLists == { <<>>, <<Urn123>>, <<Urn1234>>, <<UrnUpper, Urn123>> }

\* the thought with the n-th id, with the flag is_stale of the spec's record
StaleThought(n, source_urns, is_stale) ==
    [is_stale |-> is_stale]
    @@ new_thought(ThoughtIds[n], <<"a">>, <<"r">>, USER, U1, <<>>, source_urns, 0)

\* a store of MaxThoughts thoughts, fresh or stale, with any of the urn lists
InitStale ==
    /\ has_extractor = FALSE
    /\ \E urns \in [1..MaxThoughts -> UrnLists], flags \in [1..MaxThoughts -> BOOLEAN] :
          thoughts = [n \in 1..MaxThoughts |-> StaleThought(n, urns[n], flags[n])]
    /\ vectors = [n \in 1..MaxThoughts |-> Embed(<<"a">>)]
    /\ graph = EmptyGraph
    /\ tasks = <<>>
    /\ bg = {}
    /\ next_id = MaxThoughts + 1
    /\ now = 0
    /\ calls = <<>>
    /\ ret = NoRetrieve
    /\ fed = NoFilter
    /\ op = NoOp
    /\ disk = NoFile

\* what the next invalidation remembers of the one before it
LastInvalidation ==
    IF op.kind \in {"mark_stale_by_urn", "invalidate_source"}
    THEN [urn |-> op.urn, count |-> op.count] ELSE [urn |-> <<>>, count |-> 0]

\* VectorStore.mark_stale_by_urn; op keeps the store as it was before the
\* call, the call before it and the retrieve that ran before it
MarkStaleByUrn ==
    \E urn \in {Urn123, Urn1234, UrnUpper} :
        \E r \in {mark_stale_by_urn(thoughts, urn)} :
            /\ thoughts' = r.thoughts
            /\ op' = [kind |-> "mark_stale_by_urn", status |-> "ok", urn |-> urn,
                      count |-> r.count, thoughts |-> thoughts,
                      prev |-> LastInvalidation, seen |-> ret]
            /\ ret' = NoRetrieve
            /\ UNCHANGED <<has_extractor, vectors, graph, tasks, bg, next_id, now, calls, fed, disk>>

\* CoreasonArchive.invalidate_source
InvalidateSource ==
    \E urn \in {Urn123, Urn1234, UrnUpper} :
        \E r \in {invalidate_source(thoughts, urn)} :
            /\ thoughts' = r.thoughts
            /\ op' = [kind |-> "invalidate_source", status |-> "ok", urn |-> urn,
                      count |-> r.count, thoughts |-> thoughts,
                      prev |-> LastInvalidation, seen |-> ret]
            /\ ret' = NoRetrieve
            /\ UNCHANGED <<has_extractor, vectors, graph, tasks, bg, next_id, now, calls, fed, disk>>

\* retrieve by the owner of the stored thoughts, for one result and for two
RetrieveStale ==
    \E limit \in {1, 2} :
        RetrieveWith(<<"a">>, [user_id |-> U1, dept_ids |-> {}, project_ids |-> {},
                               client_ids |-> {}, roles |-> {}], limit, 0, 1100)

\* invalidations, one after another or with retrieves between them
NextStale ==
    \/ MarkStaleByUrn
    \/ InvalidateSource
    \/ (ret = NoRetrieve /\ RetrieveStale)
    \/ RetrieveReturns
    \/ OpReturns

SpecStale == InitStale /\ [][NextStale]_vars

\* ------------------------------------------------------------------ deletion

\* VectorStore.delete(id) for the id of a stored thought, of a deleted one or
\* of none; op keeps the store as it was before the call
Delete ==
    \E n \in 1..(MaxThoughts + 1) :
        \E d \in {vector_store_delete(thoughts, vectors, ThoughtIds[n])} :
            /\ thoughts' = d.thoughts
            /\ vectors' = d.vectors
            /\ op' = [kind |-> "delete", status |-> "ok", id |-> ThoughtIds[n],
                      removed |-> d.removed, thoughts |-> thoughts, vectors |-> vectors]
            /\ UNCHANGED <<has_extractor, graph, tasks, bg, next_id, now, calls, ret, fed, disk>>

NextDelete ==
    \/ (op = NoOp /\ AddThoughtRetrieve)
    \/ (op = NoOp /\ Delete)
    \/ OpReturns

SpecDelete == Init /\ [][NextDelete]_vars

\* ------------------------------------------------------------------ the graph store

NodeA == <<"Node", Colon, "A">>
NodeB == <<"Node", Colon, "B">>
ConfigKeyValue == <<"Config", Colon, "Key", Colon, "Value">>

\* the strings handed to add_entity: two plain entities, an entity whose
\* value has a colon, and the strings without colon, type or value
EntityInputs == {NodeA, NodeB, ConfigKeyValue, NoColon, <<"TypeOnly", Colon>>, <<Colon, "ValueOnly">>, <<>>}

\* the edges handed to add_relationship: both directions and the self-loops
\* of two nodes, under two relations
EdgeInputs ==
    { [source |-> a, target |-> b, relation |-> r] :
         a \in {NodeA, NodeB}, b \in {NodeA, NodeB}, r \in {CREATED, BELONGS_TO} }

\* GraphStore.add_entity; op keeps the graph as it was before the call
AddEntity ==
    \E e \in EntityInputs :
        \E r \in {add_entity(graph, e)} :
            /\ graph' = r.g
            /\ op' = [kind |-> "add_entity", status |-> IF r.err THEN "error" ELSE "ok",
                      entity |-> e, graph |-> graph]
            /\ UNCHANGED <<has_extractor, thoughts, vectors, tasks, bg, next_id, now, calls, ret, fed, disk>>

\* GraphStore.add_relationship
AddRelationship ==
    \E d \in EdgeInputs :
        \E r \in {add_relationship(graph, d.source, d.target, d.relation)} :
            /\ graph' = r.g
            /\ op' = [kind |-> "add_relationship", status |-> IF r.err THEN "error" ELSE "ok",
                      source |-> d.source, target |-> d.target, relation |-> d.relation,
                      graph |-> graph]
            /\ UNCHANGED <<has_extractor, thoughts, vectors, tasks, bg, next_id, now, calls, ret, fed, disk>>

\* CoreasonArchive.define_entity_relationship, which hands its arguments to
\* GraphStore.add_relationship
DefineRelationship ==
    \E d \in EdgeInputs \cup RelationInputs :
        \E r \in {add_relationship(graph, d.source, d.target, d.relation)} :
            /\ graph' = r.g
            /\ op' = [kind |-> "define_entity_relationship",
                      status |-> IF r.err THEN "error" ELSE "ok",
                      source |-> d.source, target |-> d.target, relation |-> d.relation,
                      graph |-> graph]
            /\ UNCHANGED <<has_extractor, thoughts, vectors, tasks, bg, next_id, now, calls, ret, fed, disk>>

\* the directions that a caller names, and "omitted" for a call without the
\* keyword
Directions == {"omitted", "outgoing", "incoming", "both"}

\* GraphStore.get_related_entities, called with or without a relation and
\* with or without the keyword direction; op keeps the arguments and the
\* answer, or that the call raised
GetRelatedEntities ==
    \E entity \in {NodeA, NodeB, ConfigKeyValue}, relation \in {"None", CREATED, BELONGS_TO},
       direction \in Directions :
        \E r \in {IF direction = "omitted"
                   THEN [err |-> FALSE, res |-> get_related_entities(graph, entity, relation)]
                   ELSE get_related_entities_kw(graph, entity, relation, direction)} :
            /\ op' = [kind |-> "get_related_entities", status |-> IF r.err THEN "error" ELSE "ok",
                      entity |-> entity, relation |-> relation, direction |-> direction,
                      res |-> r.res]
            /\ UNCHANGED <<has_extractor, thoughts, vectors, graph, tasks, bg, next_id, now, calls, ret, fed, disk>>

NextGraph ==
    \/ (op = NoOp /\ AddEntity)
    \/ (op = NoOp /\ AddRelationship)
    \/ (op = NoOp /\ DefineRelationship)
    \/ (op = NoOp /\ GetRelatedEntities)
    \/ OpReturns

SpecGraph == Init /\ [][NextGraph]_vars

\* ------------------------------------------------------------------ snapshots

\* the members of a finite set, in the order in which the graph lists them
RECURSIVE SetToSeq(_)
SetToSeq(S) ==
    IF S = {} THEN <<>>
    ELSE LET x == CHOOSE y \in S : TRUE IN <<x>> \o SetToSeq(S \ {x})

\* the fields that CachedThought declares (models.py 16-41)
ThoughtFields ==
    {"id", "vector", "entities", "scope", "scope_id", "prompt_text", "reasoning_trace",
     "final_response", "source_urns", "created_at", "ttl_seconds", "access_roles"}

\* json.loads(t.model_dump_json()): the JSON object of a thought, with the
\* declared fields and no other key.  The UUID is written as its string, the
\* scope as the value of the enum member, the datetime as an ISO string.
model_dump_json(t) ==
    [x \in ThoughtFields |->
        CASE x = "id" -> [str |-> t.id]
          [] x = "scope" -> [value |-> t.scope]
          [] x = "created_at" -> [iso |-> t.created_at]
          [] OTHER -> t[x]]

ValidationError == [raised |-> "ValidationError"]

\* CachedThought.model_validate(item): every declared field is required, a
\* key that is no declared field is ignored; the UUID, the enum member and
\* the datetime are parsed back from their strings
model_validate(item) ==
    IF ~(ThoughtFields \subseteq DOMAIN item) THEN ValidationError
    ELSE [x \in ThoughtFields |->
             CASE x = "id" -> item[x].str
               [] x = "scope" -> item[x].value
               [] x = "created_at" -> item[x].iso
               [] OTHER -> item[x]]

\* VectorStore.save: the list that json.dump writes
vector_store_save(ts) == [i \in 1..Len(ts) |-> model_dump_json(ts[i])]

\* load that leaves the vector cache of the store empty
vector_store_load_without_cache(ts, vs, data) ==
    [err |-> FALSE, thoughts |-> [i \in 1..Len(data) |-> model_validate(data[i])], vectors |-> <<>>]

\* VectorStore.load of a store that holds ts and vs: [err, thoughts,
\* vectors]; an item that does not validate raises before the store is
\* assigned, otherwise the thoughts are replaced and the vector cache is
\* rebuilt from them
vector_store_load(ts, vs, data) ==
    LET loaded == [i \in 1..Len(data) |-> model_validate(data[i])]
    IN  IF \E i \in 1..Len(data) : loaded[i] = ValidationError
        THEN [err |-> TRUE, thoughts |-> ts, vectors |-> vs]
        ELSE [err |-> FALSE, thoughts |-> loaded,
              vectors |-> [i \in 1..Len(loaded) |-> loaded[i].vector]]

\* json_graph.node_link_data(self.graph): each node with its attributes and
\* its id, each edge with its attribute and its two ends
node_link_data(g) ==
    [directed |-> TRUE,
     multigraph |-> FALSE,
     nodes |-> SetToSeq({[id |-> n, type |-> g.nodes[n].type, value |-> g.nodes[n].value] :
                            n \in DOMAIN g.nodes}),
     links |-> SetToSeq({[source |-> e[1], target |-> e[2], relation |-> e[3]] : e \in g.edges})]

RECURSIVE add_nodes_from(_, _)
add_nodes_from(g, nodes) ==
    IF nodes = <<>> THEN g
    ELSE add_nodes_from(
             [g EXCEPT !.nodes = (Head(nodes).id :> [type |-> Head(nodes).type,
                                                     value |-> Head(nodes).value]) @@ @],
             Tail(nodes))

\* DiGraph.add_edges_from: a later edge of a pair overwrites an earlier one
RECURSIVE add_edges_from(_, _)
add_edges_from(g, links) ==
    IF links = <<>> THEN g
    ELSE add_edges_from(add_edge(g, Head(links).source, Head(links).target, Head(links).relation),
                        Tail(links))

\* json_graph.node_link_graph(data, directed=True, multigraph=False): a new
\* DiGraph with the nodes and then the edges of the file
node_link_graph(data) == add_edges_from(add_nodes_from(EmptyGraph, data.nodes), data.links)

\* the thoughts of the snapshot model: with and without roles and source urns
SnapshotAddInputs ==
    { [prompt |-> <<"a">>, scope |-> USER, scope_id |-> U1, user_id |-> U1,
       access_roles |-> <<>>, source_urns |-> <<Urn123>>],
      [prompt |-> <<"b">>, scope |-> DEPARTMENT, scope_id |-> <<"D">>, user_id |-> U1,
       access_roles |-> <<"admin", "lead">>, source_urns |-> <<>>] }

AddThoughtSnapshot ==
    \E a \in SnapshotAddInputs :
        add_thought(a.prompt, <<"r">>, a.scope, a.scope_id, a.user_id, a.access_roles, a.source_urns)

\* VectorStore.save(path); op keeps the file and the store that wrote it
VectorStoreSave ==
    /\ op' = [kind |-> "vector_store_save", status |-> "ok", file |-> vector_store_save(thoughts),
              thoughts |-> thoughts, vectors |-> vectors]
    /\ UNCHANGED <<has_extractor, thoughts, vectors, graph, tasks, bg, next_id, now, calls, ret, fed, disk>>

\* VectorStore().load(path) of a fresh store, for the file that was just
\* written; op keeps what the fresh store holds then
VectorStoreLoad ==
    /\ op.kind = "vector_store_save"
    /\ \E r \in {vector_store_load(<<>>, <<>>, op.file)} :
           op' = [kind |-> "vector_store_load", status |-> IF r.err THEN "error" ELSE "ok",
                  file |-> op.file, thoughts |-> op.thoughts, vectors |-> op.vectors,
                  loaded |-> [thoughts |-> r.thoughts, vectors |-> r.vectors]]
    /\ UNCHANGED <<has_extractor, thoughts, vectors, graph, tasks, bg, next_id, now, calls, ret, fed, disk>>

\* GraphStore.save(path)
GraphStoreSave ==
    /\ op' = [kind |-> "graph_store_save", status |-> "ok", file |-> node_link_data(graph),
              graph |-> graph]
    /\ UNCHANGED <<has_extractor, thoughts, vectors, graph, tasks, bg, next_id, now, calls, ret, fed, disk>>

\* GraphStore().load(path) of a fresh store, for the file that was just written
GraphStoreLoad ==
    /\ op.kind = "graph_store_save"
    /\ op' = [kind |-> "graph_store_load", status |-> "ok", file |-> op.file,
              graph |-> op.graph, loaded |-> node_link_graph(op.file)]
    /\ UNCHANGED <<has_extractor, thoughts, vectors, graph, tasks, bg, next_id, now, calls, ret, fed, disk>>

\* ingestion, extraction, invalidation and edges added by hand, with
\* snapshots of both stores taken at any point
NextSnapshot ==
    \/ (op = NoOp /\ AddThoughtSnapshot)
    \/ (op = NoOp /\ ExtractReturns)
    \/ (op = NoOp /\ DoneCallback)
    \/ (op = NoOp /\ InvalidateSource)
    \/ (op = NoOp /\ AddRelationship)
    \/ (op = NoOp /\ VectorStoreSave)
    \/ VectorStoreLoad
    \/ (op = NoOp /\ GraphStoreSave)
    \/ GraphStoreLoad
    \/ OpReturns

SpecSnapshot == Init /\ [][NextSnapshot]_vars

\* ------------------------------------------------------------------ all operations

\* every operation of the archive and of the relocation manager on one
\* store; a caller takes the outcome of an operation before the next starts
NextFrame ==
    \/ (op = NoOp /\ ret = NoRetrieve /\ AddThoughtSnapshot)
    \/ (op = NoOp /\ ret = NoRetrieve /\ ExtractReturns)
    \/ (op = NoOp /\ ret = NoRetrieve /\ ExtractRaises)
    \/ (op = NoOp /\ ret = NoRetrieve /\ DoneCallback)
    \/ (op = NoOp /\ ret = NoRetrieve /\ DefineEntityRelationship)
    \/ (op = NoOp /\ ret = NoRetrieve /\ Retrieve)
    \/ RetrieveReturns
    \/ (op = NoOp /\ ret = NoRetrieve /\ SmartLookup)
    \/ (op = NoOp /\ ret = NoRetrieve /\ InvalidateSource)
    \/ (op = NoOp /\ ret = NoRetrieve /\ OnRoleChange)
    \/ (op = NoOp /\ ret = NoRetrieve /\ OnDeptTransfer)
    \/ OpReturns

SpecFrame == Init /\ [][NextFrame]_vars

\* ------------------------------------------------------------------ decay

\* thoughts of three scopes that the query "c" matches with score 1.0, and
\* a CLIENT thought that it matches with score 0.8
DecayAddInputs ==
    { [prompt |-> <<"c">>, scope |-> USER,       scope_id |-> U1,      user_id |-> U1],
      [prompt |-> <<"c">>, scope |-> DEPARTMENT, scope_id |-> <<"D">>, user_id |-> U1],
      [prompt |-> <<"c">>, scope |-> CLIENT,     scope_id |-> <<"K">>, user_id |-> U1],
      [prompt |-> <<"b">>, scope |-> CLIENT,     scope_id |-> <<"K">>, user_id |-> U1] }

AddThoughtDecay ==
    \E a \in DecayAddInputs :
        add_thought(a.prompt, <<"r">>, a.scope, a.scope_id, a.user_id, <<>>, <<>>)

\* ten hours pass
Tick ==
    /\ now < MaxAge
    /\ now' = now + 1
    /\ UNCHANGED <<has_extractor, thoughts, vectors, graph, tasks, bg, next_id, calls, ret, fed, op, disk>>

\* retrieve by a user whose department and client admit every stored
\* thought, for one result and for as many as there are thoughts
RetrieveDecay ==
    \E limit \in {1, MaxThoughts} :
        RetrieveWith(<<"c">>, [user_id |-> U1, dept_ids |-> {<<"D">>}, project_ids |-> {},
                               client_ids |-> {<<"K">>}, roles |-> {}], limit, 0, 1100)

NextDecay ==
    \/ (ret = NoRetrieve /\ AddThoughtDecay)
    \/ (ret = NoRetrieve /\ ExtractReturns)
    \/ (ret = NoRetrieve /\ DoneCallback)
    \/ (ret = NoRetrieve /\ Tick)
    \/ (ret = NoRetrieve /\ RetrieveDecay)
    \/ RetrieveReturns

SpecDecay == Init /\ [][NextDecay]_vars

\* ------------------------------------------------------------------ the vector store

\* thoughts whose vectors are (1, 0), (3, 4), (0, 1) and (0, 0)
SearchAddInputs ==
    { [prompt |-> <<c>>, scope |-> USER, scope_id |-> U1, user_id |-> U1] : c \in {"a", "b", "c", "z"} }

AddThoughtSearch ==
    \E a \in SearchAddInputs :
        add_thought(a.prompt, <<"r">>, a.scope, a.scope_id, a.user_id, <<>>, <<>>)

SearchLimits == {0, 1, MaxThoughts, MaxThoughts + 3}
SearchMinScores == {0, 600, 601, 1000}

\* VectorStore.search(query_vector, limit, min_score); op keeps the
\* arguments and the (thought id, score) pairs of the answer
Search ==
    \E c \in {"a", "b", "c", "z"}, limit \in SearchLimits, min_score \in SearchMinScores :
        \E r \in {search(thoughts, vectors, Embed(<<c>>), limit, min_score)} :
            /\ op' = [kind |-> "search", status |-> IF r.err THEN "error" ELSE "ok",
                      query_vector |-> Embed(<<c>>), limit |-> limit, min_score |-> min_score,
                      res |-> [k \in 1..Len(r.res) |->
                                  [id |-> r.res[k].thought.id, score |-> r.res[k].score]]]
            /\ UNCHANGED <<has_extractor, thoughts, vectors, graph, tasks, bg, next_id, now, calls, ret, fed, disk>>

\* VectorStore.load(filepath) of a store that holds ts and vs: a path with no
\* file leaves the store as it is (vector_store.py 119-121), a file replaces
\* the thoughts and the vector cache
vector_store_load_path(ts, vs, file) ==
    IF ~file.exists THEN [err |-> FALSE, thoughts |-> ts, vectors |-> vs]
    ELSE vector_store_load(ts, vs, file.data)

\* VectorStore.save(path) of the archive's store: the file at the path is
\* replaced by the list of the thoughts the store holds now
SaveStore ==
    /\ disk' = [exists |-> TRUE, data |-> vector_store_save(thoughts)]
    /\ op' = [kind |-> "save", status |-> "ok"]
    /\ UNCHANGED <<has_extractor, thoughts, vectors, graph, tasks, bg, next_id, now, calls, ret, fed>>

\* VectorStore.load(path) of the archive's store, for whatever the path holds:
\* no file, the file of the store as it is, or the file of an earlier store;
\* op keeps the store as it was before the call
LoadStore ==
    \E r \in {vector_store_load_path(thoughts, vectors, disk)} :
        /\ thoughts' = r.thoughts
        /\ vectors' = r.vectors
        /\ op' = [kind |-> "load", status |-> IF r.err THEN "error" ELSE "ok",
                  file |-> disk, thoughts |-> thoughts, vectors |-> vectors]
        /\ UNCHANGED <<has_extractor, graph, tasks, bg, next_id, now, calls, ret, fed, disk>>

\* ingestion, deletion, saving, loading and searching in any order
NextSearch ==
    \/ (op = NoOp /\ AddThoughtSearch)
    \/ (op = NoOp /\ Delete)
    \/ (op = NoOp /\ SaveStore)
    \/ (op = NoOp /\ LoadStore)
    \/ (op = NoOp /\ Search)
    \/ OpReturns

SpecSearch == Init /\ [][NextSearch]_vars

\* ------------------------------------------------------------------ failed ingestion

\* CoreasonArchive.add_thought with an embedder that raises; op keeps the
\* stores, the graph and the tasks as they were before the call
AddThoughtRaises ==
    /\ Len(calls) <= MaxThoughts
    /\ \E a \in ExtractInputs :
          \E r \in {add_thought_raised(thoughts, vectors, a.prompt, <<"r">>, a.scope, a.scope_id, now)} :
              /\ thoughts' = r.thoughts
              /\ vectors' = r.vectors
              /\ calls' = Append(calls, [id |-> "none", scope |-> a.scope, scope_id |-> a.scope_id,
                                         user_id |-> a.user_id, outcome |-> "raised"])
              /\ op' = [kind |-> "add_thought", status |-> "error",
                        thoughts |-> thoughts, vectors |-> vectors, graph |-> graph,
                        tasks |-> tasks, bg |-> bg]
    /\ UNCHANGED <<has_extractor, graph, tasks, bg, next_id, now, ret, fed, disk>>

\* ingestion with an embedder that may fail, and the background extraction
NextFail ==
    \/ (op = NoOp /\ AddThoughtExtract)
    \/ (op = NoOp /\ AddThoughtRaises)
    \/ (op = NoOp /\ ExtractReturns)
    \/ (op = NoOp /\ ExtractRaises)
    \/ (op = NoOp /\ DoneCallback)
    \/ OpReturns

SpecFail == Init /\ [][NextFail]_vars

\* ------------------------------------------------------------------ relocation during extraction

\* personal thoughts of the two users
PendingAddInputs ==
    { [prompt |-> <<"a">>, scope |-> USER, scope_id |-> U1, user_id |-> U1],
      [prompt |-> <<"a">>, scope |-> USER, scope_id |-> U2, user_id |-> U2] }

AddThoughtPending ==
    \E a \in PendingAddInputs :
        add_thought(a.prompt, <<"r">>, a.scope, a.scope_id, a.user_id, <<>>, <<>>)

\* the background tasks are tasks of the event loop that the relocation
\* manager's handlers run on: a task that waits for the extractor resumes
\* before or after a handler, and also before the handler's caller has taken
\* its outcome
NextPending ==
    \/ (op = NoOp /\ AddThoughtPending)
    \/ (op = NoOp /\ DefineDeptRelationship)
    \/ (op = NoOp /\ OnDeptTransfer)
    \/ ExtractReturns
    \/ DoneCallback
    \/ OpReturns

SpecPending == Init /\ [][NextPending]_vars

\* ------------------------------------------------------------------ claims: ingestion

HasEdge(source, target, relation) == <<source, target, relation>> \in graph.edges

\* the node that stands for the owning container of a scope
ScopeNode(scope, scope_id) ==
    CASE scope = USER -> Entity("User", scope_id)
      [] scope = PROJECT -> Entity("Project", scope_id)
      [] scope = DEPARTMENT -> Entity("Department", scope_id)
      [] scope = CLIENT -> Entity("Client", scope_id)

Stored(id) == \E i \in 1..Len(thoughts) : thoughts[i].id = id

StoredThought(id) == thoughts[CHOOSE i \in 1..Len(thoughts) : thoughts[i].id = id]

\* the state of the background task of thought id
TaskStatus(id) == IF id \in DOMAIN tasks THEN tasks[id].status ELSE "none"

\* the background extraction of thought id has not run yet
NotExtracted(id) == id \notin DOMAIN tasks \/ tasks[id].status = "pending"

\* an edge that touches the node of thought id
Touches(e, id) == e[1] = ThoughtNode(id) \/ e[2] = ThoughtNode(id)

\* the extracted edges of thought id for entity e are in the graph
Linked(id, e) ==
    /\ has_node(graph, e)
    /\ HasEdge(e, ThoughtNode(id), RELATED_TO)
    /\ HasEdge(ThoughtNode(id), e, RELATED_TO)

\* C1: when add_thought has returned thought T and no background extraction
\* step of T has run, the graph holds the node Thought:<T.id>, the edge
\* User:<user_id> -[CREATED]-> Thought:<T.id> and the edge
\* Thought:<T.id> -[BELONGS_TO]-> the scope node of T.
C1_StructuralRecall ==
    \A i \in 1..Len(calls) :
        (calls[i].outcome = "returned" /\ NotExtracted(calls[i].id)) =>
            /\ has_node(graph, ThoughtNode(calls[i].id))
            /\ HasEdge(Entity("User", calls[i].user_id), ThoughtNode(calls[i].id), CREATED)
            /\ HasEdge(ThoughtNode(calls[i].id), ScopeNode(calls[i].scope, calls[i].scope_id),
                       BELONGS_TO)

\* C4: when the extractor raised during the extraction of thought T, the task
\* finished normally and add_thought had returned, T is in the vector store
\* with no entities, and no edge touches Thought:<T.id> except the structural
\* CREATED and BELONGS_TO edges; a thought whose extraction succeeded has its
\* extracted edges.
C4_ExtractorFailureSwallowed ==
    \A i \in 1..Len(calls) :
        LET id == calls[i].id
        IN  /\ (id \in DOMAIN tasks /\ tasks[id].result = "extract_raised") =>
                  /\ tasks[id].status = "done"
                  /\ calls[i].outcome = "returned"
                  /\ Stored(id)
                  /\ StoredThought(id).entities = <<>>
                  /\ \A e \in graph.edges : Touches(e, id) => e[3] \in {CREATED, BELONGS_TO}
            /\ (id \in DOMAIN tasks /\ tasks[id].result = "ok") =>
                  \A k \in 1..Len(tasks[id].extracted) : Linked(id, tasks[id].extracted[k])

C4_Witness ==
    \E id1 \in DOMAIN tasks, id2 \in DOMAIN tasks :
        /\ tasks[id1].result = "extract_raised"
        /\ tasks[id2].result = "ok"
        /\ Linked(id2, ProjectX)

\* C5: a background extraction task that ended by an exception or by
\* cancellation has left none of its graph edits (no RELATED_TO edge touches
\* its Thought node); one that ended normally has left all of them.
C5_AllOrNothing ==
    \A id \in DOMAIN tasks :
        /\ tasks[id].result \in {"extract_raised", "graph_raised", "cancelled"} =>
              \A e \in graph.edges : ~(Touches(e, id) /\ e[3] = RELATED_TO)
        /\ tasks[id].result = "ok" =>
              \A k \in 1..Len(tasks[id].extracted) : Linked(id, tasks[id].extracted[k])

\* the extractor answered the task of thought id with a list of valid entities
ExtractionSucceeded(id) ==
    /\ id \in DOMAIN tasks
    /\ tasks[id].status = "done"
    /\ tasks[id].result # "extract_raised"
    /\ \A k \in 1..Len(tasks[id].extracted) : ~InvalidEntity(tasks[id].extracted[k])

C6_Linked ==
    \A id \in DOMAIN tasks :
        ExtractionSucceeded(id) =>
            /\ Stored(id)
            /\ StoredThought(id).entities = tasks[id].extracted
            /\ \A k \in 1..Len(tasks[id].extracted) : Linked(id, tasks[id].extracted[k])

\* C6: once the background task of T has completed with the valid list E,
\* T.entities = E, every e in E is a node, and e -[RELATED_TO]-> Thought:<T.id>
\* and Thought:<T.id> -[RELATED_TO]-> e exist; and every background task that
\* is outstanding eventually finishes.
C6_ExtractionLinks ==
    /\ []C6_Linked
    /\ \A n \in 1..MaxThoughts :
          (TaskStatus(ThoughtIds[n]) = "pending") ~> (TaskStatus(ThoughtIds[n]) \in {"done", "cancelled"})

C6_Witness ==
    \E id \in DOMAIN tasks :
        /\ ExtractionSucceeded(id)
        /\ tasks[id].extracted = <<ConceptA, ProjectX>>
        /\ Linked(id, ConceptA)
        /\ Linked(id, ProjectX)

\* C7: after N add_thought calls of one user into that user's USER scope, the
\* extractor having returned one entity for each and all tasks having
\* finished, the vector store holds N records and the graph N thought nodes
\* and 4N edges.
C7_ConcurrentIngestion ==
    ( /\ Len(calls) >= 1
      /\ \A i \in 1..Len(calls) :
            /\ calls[i].scope = USER /\ calls[i].scope_id = U1 /\ calls[i].user_id = U1
            /\ calls[i].id \in DOMAIN tasks
            /\ tasks[calls[i].id].result = "ok"
            /\ tasks[calls[i].id].extracted = <<ProjectX>> )
    =>
    ( /\ Len(thoughts) = Len(calls)
      /\ Cardinality({n \in DOMAIN graph.nodes : n[1] = "Thought"}) = Len(calls)
      /\ Cardinality(graph.edges) = 4 * Len(calls) )

\* C8: a call of add_thought for scope USER with a scope_id that is not the
\* caller's user_id ends with SovereigntyViolation and stores nothing.
C8_WriteSovereignty ==
    \A i \in 1..Len(calls) :
        (calls[i].scope = USER /\ calls[i].scope_id # calls[i].user_id) =>
            /\ calls[i].outcome = "SovereigntyViolation"
            /\ ~Stored(calls[i].id)

\* C9: a thought whose vector length differs from the dimension that the first
\* insert established is not stored: every stored vector has the length of
\* the first, in the thought list and in the vector cache.
C9_DimensionUniform ==
    /\ \A i \in 1..Len(thoughts) : Len(thoughts[i].vector) = Len(thoughts[1].vector)
    /\ \A i \in 1..Len(vectors) : Len(vectors[i]) = Len(vectors[1])

\* ------------------------------------------------------------------ claims: retrieval

\* C2: no thought that the federation predicate of the context rejects is in
\* the result of a retrieve made with that context.
C2_FederationSafety ==
    ret.status # "none" =>
        \A k \in 1..Len(ret.results) :
            /\ Stored(ret.results[k].id)
            /\ filter_thought(ret.context, StoredThought(ret.results[k].id))

\* a retrieve returned a thought while a candidate of its vector search was rejected
C2_Witness ==
    /\ ret.status = "ok"
    /\ ret.results # <<>>
    /\ \E k \in 1..Len(ret.raw) : ~filter_thought(ret.context, StoredThought(ret.raw[k].id))

\* the thought of the i-th add_thought call qualifies for the vector search of
\* the last retrieve
Qualifies(i) ==
    LET q == Embed(ret.query)
    IN  /\ Norm(q) # 0
        /\ Cosine(StoredThought(calls[i].id).vector, q) >= ret.min_score
        /\ Len(calls) <= 5 * ret.limit

\* C3: every candidate that a retrieve observes is a thought whose add_thought
\* had returned with all its synchronous steps done (the record and its
\* cached vector stored, the extraction task created), and the thought of
\* every add_thought that had returned before the retrieve is among the
\* candidates when it qualifies for the search.
C3_RetrieveSeesWholeThoughts ==
    ret.status # "none" =>
        /\ \A k \in 1..Len(ret.raw) :
              \E i \in 1..Len(calls) :
                  /\ calls[i].id = ret.raw[k].id
                  /\ calls[i].outcome = "returned"
                  /\ i <= Len(thoughts) /\ i <= Len(vectors)
                  /\ thoughts[i].id = calls[i].id
                  /\ vectors[i] = thoughts[i].vector
                  /\ has_extractor => calls[i].id \in DOMAIN tasks
        /\ \A i \in 1..Len(calls) :
              Qualifies(i) => \E k \in 1..Len(ret.raw) : ret.raw[k].id = calls[i].id

\* a retrieve observed the thought of the latest of two add_thought calls
\* while its extraction was outstanding
C3_Witness ==
    /\ ret.status = "ok"
    /\ Len(calls) = 2
    /\ \E k \in 1..Len(ret.raw) : ret.raw[k].id = calls[2].id
    /\ TaskStatus(calls[2].id) = "pending"

\* ------------------------------------------------------------------ claims: federation

ScopeCheck(c, t) ==
    \/ t.scope = USER /\ t.scope_id = c.user_id
    \/ t.scope = DEPARTMENT /\ t.scope_id \in c.dept_ids
    \/ t.scope = PROJECT /\ t.scope_id \in c.project_ids
    \/ t.scope = CLIENT /\ t.scope_id \in c.client_ids

RbacCheck(c, t) ==
    \/ t.access_roles = <<>>
    \/ {t.access_roles[i] : i \in 1..Len(t.access_roles)} \cap c.roles # {}

\* C10: the predicate of get_filter(c) admits t if and only if t's scope_id is
\* the user's id (USER) or one of the user's departments, projects or clients
\* (DEPARTMENT, PROJECT, CLIENT), and t.access_roles is empty or shares a role
\* with c.roles.
C10_FederationPredicate ==
    fed.status = "done" =>
        (fed.admitted <=> (ScopeCheck(fed.context, fed.thought) /\ RbacCheck(fed.context, fed.thought)))

\* a thought that asks for admin or lead is admitted to a user who is only lead
C10_Witness ==
    /\ fed.status = "done"
    /\ fed.admitted
    /\ fed.thought.access_roles = <<"admin", "lead">>
    /\ fed.context.roles = {"lead"}
    /\ fed.thought.scope = DEPARTMENT

\* ------------------------------------------------------------------ claims: relocation

\* the thought belongs to user u personally
Personal(t, u) == t.scope = USER /\ t.scope_id = u

\* some entity of the thought has an outgoing BELONGS_TO edge to the department
Contaminated(g, t, dept_id) ==
    \E i \in 1..Len(t.entities) :
        <<t.entities[i], Entity("Department", dept_id), BELONGS_TO>> \in g.edges

IdsOf(ts) == {ts[i].id : i \in 1..Len(ts)}

\* C11: on_dept_transfer(u, old, new) ends normally and removes from the
\* vector store exactly the USER-scoped thoughts of u that have an entity with
\* an outgoing BELONGS_TO edge to Department:<old>; every other thought stays.
C11_TransferSanitizes ==
    op.kind = "on_dept_transfer" =>
        /\ op.status = "ok"
        /\ IdsOf(thoughts) =
              {op.thoughts[i].id : i \in {j \in 1..Len(op.thoughts) :
                  ~(Personal(op.thoughts[j], op.user_id)
                    /\ Contaminated(op.graph, op.thoughts[j], op.old_dept_id))}}

\* C12: on_dept_transfer(u, old, new) leaves every PROJECT-, DEPARTMENT- and
\* CLIENT-scoped thought and every USER-scoped thought of another user in the
\* store, unchanged and with its cached vector.
C12_TransferFrame ==
    op.kind = "on_dept_transfer" =>
        \A i \in 1..Len(op.thoughts) :
            ~Personal(op.thoughts[i], op.user_id) =>
                \E j \in 1..Len(thoughts) :
                    /\ thoughts[j] = op.thoughts[i]
                    /\ j <= Len(vectors)
                    /\ vectors[j] = op.vectors[i]

\* a transfer ran while a project thought and another user's personal thought
\* had an entity that belongs to the old department
C12_Witness ==
    /\ op.kind = "on_dept_transfer"
    /\ \E i \in 1..Len(op.thoughts) :
          /\ op.thoughts[i].scope = PROJECT
          /\ Contaminated(op.graph, op.thoughts[i], op.old_dept_id)
    /\ \E i \in 1..Len(op.thoughts) :
          /\ op.thoughts[i].scope = USER
          /\ op.thoughts[i].scope_id # op.user_id
          /\ Contaminated(op.graph, op.thoughts[i], op.old_dept_id)

\* C13: on_role_change(user_id, new_roles) leaves the thought list, the
\* vector cache and the graph exactly as they were.
C13_RoleChangePassive ==
    op.kind = "on_role_change" =>
        /\ thoughts = op.thoughts
        /\ vectors = op.vectors
        /\ graph = op.graph

\* a role change ran over a store that holds a personal thought of the user
\* and a thought that only the new roles open
C13_Witness ==
    /\ op.kind = "on_role_change"
    /\ op.new_roles = {"lead"}
    /\ \E i \in 1..Len(thoughts) : Personal(thoughts[i], op.user_id)
    /\ \E i \in 1..Len(thoughts) :
          LET c == [user_id |-> op.user_id, dept_ids |-> {<<"A">>}, project_ids |-> {},
                    client_ids |-> {}, roles |-> {}]
          IN  /\ ~filter_thought(c, thoughts[i])
              /\ filter_thought([c EXCEPT !.roles = op.new_roles], thoughts[i])

\* ------------------------------------------------------------------ claims: orphaned nodes

\* a Thought node of the graph whose thought has no record in the vector store
Orphan(n) ==
    /\ n \in DOMAIN graph.nodes
    /\ graph.nodes[n].type = <<"Thought">>
    /\ \A i \in 1..Len(thoughts) : ThoughtNode(thoughts[i].id) # n

\* the graph without its orphaned Thought nodes and their edges
WithoutOrphans ==
    [nodes |-> [n \in {x \in DOMAIN graph.nodes : ~Orphan(x)} |-> graph.nodes[n]],
     edges |-> {e \in graph.edges : ~Orphan(e[1]) /\ ~Orphan(e[2])}]

\* C14: every thought in the result of a retrieve is a record of the vector
\* store that was not deleted, and the retrieve ends exactly as it would on
\* the graph without the orphaned Thought nodes (they neither add a result nor
\* make it fail).
C14_OrphansIgnored ==
    ret.status # "none" =>
        /\ \A k \in 1..Len(ret.results) :
              /\ Stored(ret.results[k].id)
              /\ \A i \in 1..Len(calls) :
                    calls[i].id = ret.results[k].id => calls[i].outcome # "deleted"
        /\ LET r == retrieve(thoughts, vectors, WithoutOrphans, ret.query, ret.context,
                             ret.limit, ret.min_score, ret.graph_boost_factor, now)
           IN  /\ ret.status = (IF r.err THEN "error" ELSE "ok")
               /\ ret.results = Brief(r.results)

\* a retrieve returned a thought while the graph held the node and the edges
\* of a deleted thought
C14_Witness ==
    /\ ret.status = "ok"
    /\ ret.results # <<>>
    /\ \E i \in 1..Len(calls) :
          /\ calls[i].outcome = "deleted"
          /\ Orphan(ThoughtNode(calls[i].id))
          /\ \E e \in graph.edges : Touches(e, calls[i].id)

\* ------------------------------------------------------------------ claims: lookup

\* the strategy that the order exact, hint, boosted, standard gives to the
\* top-ranked result
Classified(results, exact_threshold, hint_threshold) ==
    IF results = <<>> THEN STANDARD_RETRIEVAL
    ELSE IF results[1].score >= exact_threshold * 1000000 THEN EXACT_HIT
    ELSE IF results[1].score >= hint_threshold * 1000000 THEN SEMANTIC_HINT
    ELSE IF results[1].is_boosted THEN ENTITY_HOP
    ELSE STANDARD_RETRIEVAL

\* ------------------------------------------------------------------ claims: boosting

\* the seeds of the boost set: the project nodes of the context
Seeds(c) == {Entity("Project", p) : p \in c.project_ids}

\* the nodes joined to n by one edge, in either direction, whatever its label
Neighbours(n) == {e[2] : e \in {x \in graph.edges : x[1] = n}}
                 \cup {e[1] : e \in {x \in graph.edges : x[2] = n}}

\* the boost set B of a context: the seeds and their neighbours
BoostSet(c) == Seeds(c) \cup UNION {Neighbours(n) : n \in Seeds(c)}

EntitiesOf(t) == {t.entities[i] : i \in 1..Len(t.entities)}

\* the k-th candidate of the vector search of the last retrieve passed the
\* federation predicate
Survives(k) == filter_thought(ret.context, StoredThought(ret.raw[k].id))

\* C16: a retrieve whose vector search found a candidate that survives the
\* federation predicate ends normally, and a thought in its result has
\* is_boosted = true exactly when one of its entities is in the boost set B
\* of the context (the project nodes of the context and their neighbours in
\* either direction).
C16_BoostedIffInBoostSet ==
    ret.status # "none" =>
        /\ (\E k \in 1..Len(ret.raw) : Survives(k)) => ret.status = "ok"
        /\ \A j \in 1..Len(ret.results) :
              ret.results[j].is_boosted <=>
                  (EntitiesOf(StoredThought(ret.results[j].id)) \cap BoostSet(ret.context) # {})

\* C15: every smart_lookup answers with the strategy that the order
\* EXACT_HIT, SEMANTIC_HINT, ENTITY_HOP, STANDARD_RETRIEVAL gives to the
\* top-ranked result of retrieve(limit=5): no result gives STANDARD_RETRIEVAL
\* with no thought and the message, a score at or above exact_threshold
\* EXACT_HIT, else at or above hint_threshold SEMANTIC_HINT, else a boosted top
\* thought ENTITY_HOP, else STANDARD_RETRIEVAL with the list of results.  A
\* top thought with an entity in the boost set of the context is boosted: it
\* is answered with ENTITY_HOP below both thresholds and with SEMANTIC_HINT at
\* or above hint_threshold and below exact_threshold.
C15_LookupClassification ==
    op.kind = "smart_lookup" =>
        /\ op.status = "ok"
        /\ LET r == retrieve(thoughts, vectors, graph, op.query, op.context, 5, 0,
                             op.graph_boost_factor, now)
               top == StoredThought(op.result.thought)
               linked == EntitiesOf(top) \cap BoostSet(op.context) # {}
           IN  /\ ~r.err
               /\ op.result.strategy = Classified(r.results, op.exact_threshold, op.hint_threshold)
               /\ r.results = <<>> =>
                     /\ op.result.thought = "None"
                     /\ op.result.content = [message |-> "No relevant memories found."]
               /\ r.results # <<>> =>
                     /\ op.result.thought = r.results[1].thought.id
                     /\ op.result.score = r.results[1].score
                     /\ linked => r.results[1].is_boosted
                     /\ (/\ linked
                         /\ op.result.score < op.exact_threshold * 1000000
                         /\ op.result.score < op.hint_threshold * 1000000) =>
                            op.result.strategy = ENTITY_HOP
                     /\ (/\ linked
                         /\ op.result.score < op.exact_threshold * 1000000
                         /\ op.result.score >= op.hint_threshold * 1000000) =>
                            op.result.strategy = SEMANTIC_HINT
               /\ (r.results # <<>> /\ op.result.strategy = STANDARD_RETRIEVAL) =>
                     op.result.content = [top_thoughts |-> top_thoughts(r.results)]

\* no entity of the thought is a seed or a neighbour of a seed, and one of
\* them is a neighbour of a neighbour
TwoHopOnly(t, c) ==
    /\ EntitiesOf(t) \cap BoostSet(c) = {}
    /\ \E e \in EntitiesOf(t) : Neighbours(e) \cap BoostSet(c) # {}

\* C17: when a surviving candidate reaches the seeds only in two hops, the
\* retrieve ends normally and returns it, if at all, with is_boosted = false
\* and a score that graph_boost_factor has not multiplied.
C17_TwoHopNotBoosted ==
    ret.status # "none" =>
        \A k \in 1..Len(ret.raw) :
            (Survives(k) /\ TwoHopOnly(StoredThought(ret.raw[k].id), ret.context)) =>
                /\ ret.status = "ok"
                /\ \A j \in 1..Len(ret.results) :
                      ret.results[j].id = ret.raw[k].id =>
                          /\ ~ret.results[j].is_boosted
                          /\ ret.results[j].score =
                                ret.results[j].base_score * 1000 * ret.results[j].decay_factor

\* C18: every thought in the result of a retrieve has a similarity to the
\* query, reported as base_score, of at least min_score.
C18_VectorGate ==
    ret.status # "none" =>
        \A j \in 1..Len(ret.results) :
            /\ ret.results[j].base_score >= ret.min_score
            /\ ret.results[j].base_score =
                  Cosine(StoredThought(ret.results[j].id).vector, Embed(ret.query))

\* a retrieve ended normally without a thought that the context may read,
\* that has an active project of the context among its entities, and whose
\* similarity to the query is below min_score
C18_Witness ==
    /\ ret.status = "ok"
    /\ \E i \in 1..Len(thoughts) :
          /\ filter_thought(ret.context, thoughts[i])
          /\ EntitiesOf(thoughts[i]) \cap Seeds(ret.context) # {}
          /\ Norm(Embed(ret.query)) # 0
          /\ Cosine(thoughts[i].vector, Embed(ret.query)) < ret.min_score
          /\ \A j \in 1..Len(ret.results) : ret.results[j].id # thoughts[i].id

\* C19: when a surviving candidate has an entity in the boost set, the
\* retrieve ends normally; the final score of every result is base_score x
\* graph_boost_factor x decay_factor when it is boosted and base_score x
\* decay_factor otherwise, the candidate with an entity in the boost set
\* being reported as boosted.
C19_MultiplicativeBoost ==
    ret.status # "none" =>
        /\ \A k \in 1..Len(ret.raw) :
              (Survives(k)
               /\ EntitiesOf(StoredThought(ret.raw[k].id)) \cap BoostSet(ret.context) # {}) =>
                  /\ ret.status = "ok"
                  /\ \A j \in 1..Len(ret.results) :
                        ret.results[j].id = ret.raw[k].id => ret.results[j].is_boosted
        /\ \A j \in 1..Len(ret.results) :
              /\ ret.results[j].decay_factor =
                    calculate_decay_factor(StoredThought(ret.results[j].id).scope,
                                           StoredThought(ret.results[j].id).created_at, now)
              /\ ret.results[j].score =
                    ret.results[j].base_score
                    * (IF ret.results[j].is_boosted THEN ret.graph_boost_factor ELSE 1000)
                    * ret.results[j].decay_factor

\* ------------------------------------------------------------------ claims: invalidation

\* the urn is, as a whole, one of the source urns of the thought
NamesUrn(t, urn) == \E i \in 1..Len(t.source_urns) : t.source_urns[i] = urn

\* C20: mark_stale_by_urn(u), and invalidate_source(u) through it, sets
\* is_stale on exactly the thoughts that have u among their source_urns,
\* changes nothing else, and returns the number of thoughts whose flag went
\* from false to true.
C20_MarkStaleByUrn ==
    op.kind \in {"mark_stale_by_urn", "invalidate_source"} =>
        /\ Len(thoughts) = Len(op.thoughts)
        /\ \A i \in 1..Len(thoughts) :
              thoughts[i] = [op.thoughts[i] EXCEPT
                                !.is_stale = op.thoughts[i].is_stale \/ NamesUrn(op.thoughts[i], op.urn)]
        /\ op.count = Cardinality({i \in 1..Len(thoughts) :
                                      ~op.thoughts[i].is_stale /\ thoughts[i].is_stale})

\* invalidate_source returned 1 for a store with a fresh thought that names
\* the urn and a thought that was stale already and names it too
C20_Witness ==
    /\ op.kind = "invalidate_source"
    /\ op.count = 1
    /\ \E i \in 1..Len(op.thoughts) : op.thoughts[i].is_stale /\ NamesUrn(op.thoughts[i], op.urn)
    /\ \E i \in 1..Len(op.thoughts) : ~op.thoughts[i].is_stale /\ thoughts[i].is_stale

\* C21: mark_stale_by_urn(u) called twice in a row returns (n, 0) and the
\* second call leaves the store as the first left it; a thought that is
\* stale already is not counted when another of its urns is invalidated, and
\* no call takes is_stale from true back to false.
C21_StaleIdempotent ==
    op.kind \in {"mark_stale_by_urn", "invalidate_source"} =>
        /\ op.prev.urn = op.urn => (op.count = 0 /\ thoughts = op.thoughts)
        /\ op.count <= Cardinality({i \in 1..Len(op.thoughts) : ~IsStale(op.thoughts[i])})
        /\ \A i \in 1..Len(op.thoughts) : IsStale(op.thoughts[i]) => IsStale(thoughts[i])

\* the second of two calls for one urn, the first of which had flagged a
\* thought with two urns, returned 0
C21_Witness ==
    /\ op.kind = "mark_stale_by_urn"
    /\ op.prev.urn = op.urn
    /\ op.prev.count >= 1
    /\ op.count = 0
    /\ \E i \in 1..Len(thoughts) :
          IsStale(thoughts[i]) /\ NamesUrn(thoughts[i], op.urn) /\ Len(thoughts[i].source_urns) = 2

\* the arguments of two retrieves are the same
SameRetrieve(r1, r2) ==
    /\ r1.query = r2.query
    /\ r1.context = r2.context
    /\ r1.limit = r2.limit
    /\ r1.min_score = r2.min_score
    /\ r1.graph_boost_factor = r2.graph_boost_factor

\* C22: a retrieve that is repeated after invalidate_source(u) returns what
\* it returned before, and a returned thought that names u, fresh at the
\* first retrieve, is returned again and is now stale.
C22_InvalidationKeepsResults ==
    (/\ ret.status = "ok"
     /\ op.kind = "invalidate_source"
     /\ op.seen.status = "ok"
     /\ SameRetrieve(ret, op.seen)) =>
        /\ ret.results = op.seen.results
        /\ \A i \in 1..Len(op.seen.results) :
              \A k \in 1..Len(op.thoughts) :
                  (/\ op.thoughts[k].id = op.seen.results[i].id
                   /\ NamesUrn(op.thoughts[k], op.urn)
                   /\ ~IsStale(op.thoughts[k])) =>
                      /\ \E j \in 1..Len(ret.results) : ret.results[j].id = op.thoughts[k].id
                      /\ IsStale(thoughts[k])

\* the retrieve was repeated after an invalidation that flagged a thought it
\* had returned
C22_Witness ==
    /\ ret.status = "ok"
    /\ op.kind = "invalidate_source"
    /\ op.seen.status = "ok"
    /\ SameRetrieve(ret, op.seen)
    /\ op.count >= 1
    /\ \E i \in 1..Len(ret.results), k \in 1..Len(thoughts) :
          /\ thoughts[k].id = ret.results[i].id
          /\ ~IsStale(op.thoughts[k])
          /\ IsStale(thoughts[k])

\* ------------------------------------------------------------------ claims: the graph store

EdgeOps == {"add_relationship", "define_entity_relationship"}

Relations == {CREATED, BELONGS_TO, RELATED_TO}

\* C23: adding a (source, target, relation) that the graph has already is a
\* no-op, self-loops included: the graph, its edge count and every
\* get_related_entities result are as they were before the call.
C23_AddRelationshipIdempotent ==
    (/\ op.kind \in EdgeOps
     /\ <<op.source, op.target, op.relation>> \in op.graph.edges) =>
        /\ op.status = "ok"
        /\ graph.nodes = op.graph.nodes
        /\ graph.edges = op.graph.edges
        /\ Cardinality(graph.edges) = Cardinality(op.graph.edges)
        /\ \A n \in DOMAIN graph.nodes, r \in Relations \cup {"None"} :
              get_related_entities(graph, n, r) = get_related_entities(op.graph, n, r)

\* define_entity_relationship was repeated for a self-loop of a graph that
\* has other edges too
C23_Witness ==
    /\ op.kind = "define_entity_relationship"
    /\ op.source = op.target
    /\ <<op.source, op.target, op.relation>> \in op.graph.edges
    /\ Cardinality(graph.edges) >= 2

\* C24: the graph keeps one edge per relation between an ordered pair: an
\* add_relationship that returns leaves every edge that was there and adds
\* its own, so (a, b, r1) followed by (a, b, r2) gives two edges, both of
\* them answered by get_related_entities(a) and the first by the filter r1.
C24_Multigraph ==
    (op.kind \in EdgeOps /\ op.status = "ok") =>
        /\ op.graph.edges \subseteq graph.edges
        /\ <<op.source, op.target, op.relation>> \in graph.edges
        /\ \A e \in op.graph.edges :
              /\ <<e[2], e[3]>> \in get_related_entities(graph, e[1], "None")
              /\ <<e[2], e[3]>> \in get_related_entities(graph, e[1], e[3])

\* the string has no colon, or nothing before its first colon, or nothing
\* after it
Malformed(s) ==
    \/ \A i \in 1..Len(s) : s[i] # Colon
    \/ s[1] = Colon
    \/ (s[Len(s)] = Colon /\ \A i \in 1..(Len(s) - 1) : s[i] # Colon)

\* C25: add_entity raises for a string without colon, type or value and then
\* leaves the graph as it was; for any other string it returns, the node is
\* in the graph with the text before the first colon as its type and all the
\* text after it as its value, nothing else has changed, and a node that was
\* there already is left as it was.
C25_AddEntity ==
    op.kind = "add_entity" =>
        /\ (op.status = "error") <=> Malformed(op.entity)
        /\ op.status = "error" => graph = op.graph
        /\ op.status = "ok" =>
              /\ op.entity \in DOMAIN graph.nodes
              /\ graph.nodes[op.entity].type \o <<Colon>> \o graph.nodes[op.entity].value = op.entity
              /\ ~HasColon(graph.nodes[op.entity].type)
              /\ graph.nodes[op.entity].type # <<>>
              /\ graph.nodes[op.entity].value # <<>>
              /\ DOMAIN graph.nodes = DOMAIN op.graph.nodes \cup {op.entity}
              /\ \A n \in DOMAIN op.graph.nodes : graph.nodes[n] = op.graph.nodes[n]
              /\ graph.edges = op.graph.edges

\* add_entity was called again for a node whose value has a colon, in a
\* graph that has edges
C25_Witness ==
    /\ op.kind = "add_entity"
    /\ op.status = "ok"
    /\ op.entity \in DOMAIN op.graph.nodes
    /\ HasColon(graph.nodes[op.entity].value)
    /\ graph.edges # {}

\* ------------------------------------------------------------------ claims: deletion

\* some member of the sequence is the thought id, or carries it
HasId(xs, id) == \E i \in 1..Len(xs) : xs[i].id = id

\* C26: delete(id) for an id that the store does not hold returns false and
\* leaves thoughts and vector cache as they were; for a stored id it returns
\* true, the other records stay in order with their vectors, and the record
\* is in no search and no get_by_scope result.
C26_Delete ==
    op.kind = "delete" =>
        IF ~HasId(op.thoughts, op.id)
        THEN /\ ~op.removed
             /\ thoughts = op.thoughts
             /\ vectors = op.vectors
        ELSE /\ op.removed
             /\ ~HasId(thoughts, op.id)
             /\ thoughts = SelectSeq(op.thoughts, LAMBDA t : t.id # op.id)
             /\ vectors = [i \in 1..Len(thoughts) |-> thoughts[i].vector]
             /\ \A q \in {<<"a">>, <<"b">>} :
                   LET s == search(thoughts, vectors, Embed(q), MaxThoughts, 0)
                   IN  ~s.err /\ \A i \in 1..Len(s.res) : s.res[i].thought.id # op.id
             /\ \A scope \in MemoryScope, scope_id \in {U1, U2, <<"X">>, <<"D">>} :
                   ~HasId(get_by_scope(thoughts, scope, scope_id), op.id)

\* the newer of two stored thoughts was deleted, and the search still finds
\* the older one
C26_Witness ==
    /\ op.kind = "delete"
    /\ op.removed
    /\ Len(op.thoughts) = 2
    /\ op.thoughts[2].id = op.id
    /\ \E q \in {<<"a">>, <<"b">>} :
          search(thoughts, vectors, Embed(q), MaxThoughts, 0).res # <<>>

\* ------------------------------------------------------------------ claims: snapshots

\* C27: save followed by load into a fresh store reproduces the state: the
\* same thoughts in the same order, equal in every field and in is_stale,
\* the vector cache rebuilt from them, and the same nodes and the same
\* (source, target, relation) edges, cycles and self-loops included.
C27_SnapshotRoundTrip ==
    /\ op.kind = "vector_store_load" =>
          /\ Len(op.loaded.thoughts) = Len(op.thoughts)
          /\ \A i \in 1..Len(op.thoughts) :
                /\ \A x \in ThoughtFields \ {"is_stale"} :
                      op.loaded.thoughts[i][x] = op.thoughts[i][x]
                /\ IsStale(op.loaded.thoughts[i]) = IsStale(op.thoughts[i])
          /\ op.loaded.vectors = [i \in 1..Len(op.thoughts) |-> op.thoughts[i].vector]
    /\ op.kind = "graph_store_load" =>
          /\ op.loaded.nodes = op.graph.nodes
          /\ op.loaded.edges = op.graph.edges

\* a graph with a cycle and a self-loop under two relations was saved and
\* loaded, from an archive that holds a stale thought with entities
C27_Witness ==
    /\ op.kind = "graph_store_load"
    /\ \E e \in op.graph.edges : e[1] = e[2]
    /\ \E e1 \in op.graph.edges, e2 \in op.graph.edges :
          e1[1] = e2[2] /\ e1[2] = e2[1] /\ e1[1] # e1[2] /\ e1[3] # e2[3]
    /\ \E i \in 1..Len(thoughts) : IsStale(thoughts[i]) /\ thoughts[i].entities # <<>>

\* ------------------------------------------------------------------ claims: background tasks

\* a task is tracked while it is outstanding, only scheduled tasks are
\* tracked, no task exists without an extractor, and every add_thought
\* returned its thought whatever became of the tasks
TasksTracked ==
    /\ \A id \in DOMAIN tasks : tasks[id].status = "pending" => id \in bg
    /\ bg \subseteq DOMAIN tasks
    /\ ~has_extractor => (DOMAIN tasks = {} /\ bg = {})
    /\ has_extractor => DOMAIN tasks = {calls[i].id : i \in 1..Len(calls)}
    /\ \A i \in 1..Len(calls) : calls[i].outcome = "returned" /\ Stored(calls[i].id)

\* C28: every task that add_thought schedules is in _background_tasks while
\* it is outstanding and leaves it once it has finished - returned, raised
\* or cancelled - so the set is empty when all tasks have finished; what
\* happens to one task neither reaches add_thought nor keeps another task
\* from finishing; without an extractor no task is scheduled.
C28_TasksTracked ==
    /\ []TasksTracked
    /\ \A n \in 1..MaxThoughts :
          (ThoughtIds[n] \in DOMAIN tasks)
              ~> (TaskStatus(ThoughtIds[n]) # "pending" /\ ThoughtIds[n] \notin bg)
    /\ (\A id \in DOMAIN tasks : tasks[id].status # "pending") ~> (bg = {})

\* two tasks have finished, one of them cancelled and one through an
\* extractor that raised, and the set is empty
C28_Witness ==
    /\ bg = {}
    /\ \E id1 \in DOMAIN tasks, id2 \in DOMAIN tasks :
          /\ tasks[id1].status = "cancelled"
          /\ tasks[id2].result = "extract_raised"

\* ------------------------------------------------------------------ claims: ids in structural edges

\* an id as it is written into a node: the literal Unknown for the empty id
Canonical(id) == IF id = <<>> THEN <<"Unknown">> ELSE id

\* C29: add_thought with an empty user_id or scope_id returns its thought,
\* and the graph holds User:Unknown -[CREATED]-> Thought:<id> and
\* Thought:<id> -[BELONGS_TO]-> <ScopeType>:Unknown; an id with colons is
\* the whole value of its node.
C29_UnknownIds ==
    \A i \in 1..Len(calls) :
        LET user_node == Entity("User", Canonical(calls[i].user_id))
            scope_node == ScopeNode(calls[i].scope, Canonical(calls[i].scope_id))
        IN  /\ calls[i].outcome = "returned"
            /\ HasEdge(user_node, ThoughtNode(calls[i].id), CREATED)
            /\ HasEdge(ThoughtNode(calls[i].id), scope_node, BELONGS_TO)
            /\ has_node(graph, user_node)
            /\ graph.nodes[user_node].value = Canonical(calls[i].user_id)
            /\ has_node(graph, scope_node)
            /\ graph.nodes[scope_node].value = Canonical(calls[i].scope_id)

\* ------------------------------------------------------------------ claims: the life of a thought

\* the step is a run of on_dept_transfer
Relocates == op' # op /\ op'.kind = "on_dept_transfer"

\* C30: no step other than a relocation removes a thought from the vector
\* store or its row from the vector cache, and no step at all changes a
\* field of a stored thought other than entities and is_stale.
C30_ThoughtFrame ==
    [][/\ ~Relocates =>
             /\ Len(thoughts') >= Len(thoughts)
             /\ Len(vectors') >= Len(vectors)
             /\ \A i \in 1..Len(thoughts) : thoughts'[i].id = thoughts[i].id
             /\ \A i \in 1..Len(vectors) : vectors'[i] = vectors[i]
       /\ \A i \in 1..Len(thoughts), j \in 1..Len(thoughts') :
             thoughts'[j].id = thoughts[i].id =>
                 \A x \in ThoughtFields \ {"entities", "is_stale"} :
                     thoughts'[j][x] = thoughts[i][x]
      ]_vars

\* a smart_lookup has run on a store of two thoughts, one of which has got
\* its entities from the extraction and has been made stale
C30_Witness ==
    /\ op.kind = "smart_lookup"
    /\ Len(thoughts) = 2
    /\ \E i \in 1..Len(thoughts) : thoughts[i].entities # <<>> /\ IsStale(thoughts[i])

\* ------------------------------------------------------------------ claims: decay

\* the scopes from the fastest decay to the slowest
ScopeRank(scope) ==
    CASE scope = USER -> 1
      [] scope = PROJECT -> 2
      [] scope = DEPARTMENT -> 3
      [] scope = CLIENT -> 4

\* C31: for an elapsed time greater than 0 the decay factors are ordered
\* USER < PROJECT < DEPARTMENT < CLIENT; of two results of one age, one base
\* score and one boost, retrieve ranks the one of the slower scope first;
\* and a CLIENT thought of base score 0.8 is ranked before a USER thought of
\* base score 1.0 when both are ten hours old.
C31_ScopeDecayOrdering ==
    /\ \A created \in 0..(now - 1) :
          /\ calculate_decay_factor(USER, created, now) < calculate_decay_factor(PROJECT, created, now)
          /\ calculate_decay_factor(PROJECT, created, now) < calculate_decay_factor(DEPARTMENT, created, now)
          /\ calculate_decay_factor(DEPARTMENT, created, now) < calculate_decay_factor(CLIENT, created, now)
    /\ ret.status = "ok" =>
          \A i \in 1..Len(ret.results), j \in 1..Len(ret.results) :
              LET a == StoredThought(ret.results[i].id)
                  b == StoredThought(ret.results[j].id)
              IN  /\ (/\ a.created_at = b.created_at
                      /\ a.created_at < now
                      /\ ret.results[i].base_score = ret.results[j].base_score
                      /\ ret.results[i].is_boosted = ret.results[j].is_boosted
                      /\ ScopeRank(a.scope) > ScopeRank(b.scope)) => i < j
                  /\ (/\ a.created_at = now - 1
                      /\ b.created_at = now - 1
                      /\ a.scope = CLIENT
                      /\ ret.results[i].base_score = 800
                      /\ b.scope = USER
                      /\ ret.results[j].base_score = 1000) => i < j

\* a retrieve returned a CLIENT thought of base score 0.8 before a USER
\* thought of base score 1.0 that was stored first, both ten hours old
C31_Witness ==
    /\ ret.status = "ok"
    /\ Len(ret.results) = 2
    /\ Len(thoughts) = 2
    /\ thoughts[1].scope = USER
    /\ thoughts[1].created_at = now - 1
    /\ thoughts[2].created_at = now - 1
    /\ ret.results[1].id = thoughts[2].id
    /\ ret.results[1].base_score = 800
    /\ ret.results[2].base_score = 1000

\* ------------------------------------------------------------------ claims: ranking

\* the place of thought id among the candidates of the vector search
RawPosition(id) == CHOOSE k \in 1..Len(ret.raw) : ret.raw[k].id = id

\* C32: retrieve returns at most limit results, in non-increasing order of
\* final score, results of equal final score in the order in which the
\* vector search produced them, and no thought twice.
C32_RankedTruncated ==
    ret.status = "ok" =>
        /\ Len(ret.results) <= ret.limit
        /\ \A i \in 1..Len(ret.results) : \E k \in 1..Len(ret.raw) : ret.raw[k].id = ret.results[i].id
        /\ \A i \in 1..Len(ret.results), j \in 1..Len(ret.results) :
              i < j =>
                  /\ ret.results[i].score >= ret.results[j].score
                  /\ ret.results[i].id # ret.results[j].id
                  /\ ret.results[i].score = ret.results[j].score =>
                        RawPosition(ret.results[i].id) < RawPosition(ret.results[j].id)

\* a retrieve with limit 1 over two candidates of equal final score returned
\* the one that the vector search had put first, a thought that the graph
\* links to its entities
C32_Witness ==
    /\ ret.status = "ok"
    /\ ret.limit = 1
    /\ Len(ret.raw) = 2
    /\ Len(ret.results) = 1
    /\ now > 0
    /\ ret.results[1].id = ret.raw[1].id
    /\ StoredThought(ret.raw[1].id).scope = StoredThought(ret.raw[2].id).scope
    /\ StoredThought(ret.raw[1].id).created_at = StoredThought(ret.raw[2].id).created_at
    /\ ret.raw[1].score = ret.raw[2].score
    /\ \E e \in Elements(StoredThought(ret.raw[1].id).entities) : Linked(ret.raw[1].id, e)

\* ------------------------------------------------------------------ claims: the vector store

\* the place in the store of the thought with the id
IndexOf(id) == CHOOSE i \in 1..Len(thoughts) : thoughts[i].id = id

\* the score of the i-th stored thought for the query of the search
ScoreOf(i) == Cosine(thoughts[i].vector, op.query_vector)

\* the stored thoughts that the search has to return if the limit allows
Matches == {i \in 1..Len(thoughts) : ScoreOf(i) >= op.min_score}

\* thought i comes before thought j in the ranking: higher score, or equal
\* score and stored earlier
Before(i, j) == ScoreOf(i) > ScoreOf(j) \/ (ScoreOf(i) = ScoreOf(j) /\ i < j)

\* C33: search returns the thoughts whose score is at least min_score, by
\* descending score and for equal scores in insertion order, cut to limit:
\* nothing for an empty store, a query of zero norm or limit 0, and every
\* match when the limit exceeds their number.
C33_Search ==
    op.kind = "search" =>
        /\ op.status = "ok"
        /\ (thoughts = <<>> \/ Norm(op.query_vector) = 0 \/ op.limit = 0) => op.res = <<>>
        /\ Norm(op.query_vector) # 0 =>
              /\ Len(op.res) = IF op.limit < Cardinality(Matches) THEN op.limit
                                 ELSE Cardinality(Matches)
              /\ \A k \in 1..Len(op.res) :
                    /\ Stored(op.res[k].id)
                    /\ IndexOf(op.res[k].id) \in Matches
                    /\ op.res[k].score = ScoreOf(IndexOf(op.res[k].id))
                    /\ \A l \in (k + 1)..Len(op.res) :
                          Before(IndexOf(op.res[k].id), IndexOf(op.res[l].id))
                    /\ \A i \in Matches :
                          (\A l \in 1..Len(op.res) : op.res[l].id # thoughts[i].id) =>
                              Before(IndexOf(op.res[k].id), i)

\* a search with limit 1 and a min_score that two stored thoughts meet
\* exactly returned the one that was stored first
C33_Witness ==
    /\ op.kind = "search"
    /\ op.limit = 1
    /\ op.min_score = 600
    /\ Len(thoughts) = 2
    /\ ScoreOf(1) = 600
    /\ ScoreOf(2) = 600
    /\ Len(op.res) = 1
    /\ op.res[1].id = thoughts[1].id

\* C34: after any sequence of add, delete and load the vector cache is as
\* long as the thought list and its i-th entry is the vector of the i-th
\* thought; a search scores every thought it returns with that thought's
\* own vector and returns stored thoughts only.
C34_CacheInSync ==
    /\ Len(vectors) = Len(thoughts)
    /\ \A i \in 1..Len(thoughts) : vectors[i] = thoughts[i].vector
    /\ op.kind = "search" =>
          /\ op.status = "ok"
          /\ \A k \in 1..Len(op.res) :
                /\ Stored(op.res[k].id)
                /\ op.res[k].score = Cosine(StoredThought(op.res[k].id).vector, op.query_vector)

\* a load has just replaced a store by the file of an earlier one: the file
\* was written when the store held the first thought, the second was added
\* and the first deleted since, and the store now holds the first thought
\* again, with its vector in the cache
C34_Witness ==
    /\ op.kind = "load"
    /\ op.status = "ok"
    /\ op.file.exists
    /\ Len(op.thoughts) = 1
    /\ Len(thoughts) = 1
    /\ thoughts[1].id # op.thoughts[1].id
    /\ thoughts[1].vector # op.thoughts[1].vector
    /\ vectors = <<thoughts[1].vector>>
    /\ op.vectors = <<op.thoughts[1].vector>>

\* ------------------------------------------------------------------ claims: graph queries

\* the (neighbour, relation) pairs of the edges that leave the entity
Outgoing(entity, relation) ==
    {<<e[2], e[3]>> : e \in {x \in graph.edges : x[1] = entity /\ (relation = "None" \/ x[3] = relation)}}

\* the (neighbour, relation) pairs of the edges that enter the entity
Incoming(entity, relation) ==
    {<<e[1], e[3]>> : e \in {x \in graph.edges : x[2] = entity /\ (relation = "None" \/ x[3] = relation)}}

\* C35: get_related_entities(e, relation, direction) answers with the
\* targets of the edges that leave e for outgoing and for a call without
\* direction, the sources of the edges that enter e for incoming, and their
\* union for both, each pair once, the relation filter keeping the edges
\* with exactly that label; for an entity that is no node it answers with
\* the empty list.
C35_RelatedEntities ==
    op.kind = "get_related_entities" =>
        /\ op.status = "ok"
        /\ op.res =
              IF ~has_node(graph, op.entity) THEN {}
              ELSE CASE op.direction \in {"omitted", "outgoing"} -> Outgoing(op.entity, op.relation)
                     [] op.direction = "incoming" -> Incoming(op.entity, op.relation)
                     [] op.direction = "both" ->
                            Outgoing(op.entity, op.relation) \cup Incoming(op.entity, op.relation)

\* ------------------------------------------------------------------ claims: failed ingestion

\* C36: when add_thought raises, the vector store, the graph and the set of
\* background tasks are as before the call; every Thought node and every
\* task belong to a thought that an add_thought has stored and returned.
C36_FailedAddLeavesNoTrace ==
    /\ (op.kind = "add_thought" /\ op.status = "error") =>
          /\ thoughts = op.thoughts
          /\ vectors = op.vectors
          /\ graph = op.graph
          /\ tasks = op.tasks
          /\ bg = op.bg
    /\ Len(thoughts) = Cardinality({i \in 1..Len(calls) : calls[i].outcome = "returned"})
    /\ \A i \in 1..Len(thoughts) :
          \E k \in 1..Len(calls) : calls[k].outcome = "returned" /\ calls[k].id = thoughts[i].id
    /\ \A n \in DOMAIN graph.nodes :
          graph.nodes[n].type = <<"Thought">> => \E i \in 1..Len(thoughts) : ThoughtNode(thoughts[i].id) = n
    /\ \A id \in DOMAIN tasks : Stored(id)

\* an add_thought has raised in an archive that holds a thought with
\* extracted entities and a task that is still outstanding
C36_Witness ==
    /\ op.kind = "add_thought"
    /\ op.status = "error"
    /\ \E i \in 1..Len(thoughts) : thoughts[i].entities # <<>>
    /\ \E id \in bg : tasks[id].status = "pending"
    /\ calls[Len(calls)].outcome = "raised"

\* ------------------------------------------------------------------ claims: failed graph writes

\* C37: when add_relationship or define_entity_relationship raises because
\* the source or the target is no Type:Value string, the graph has the nodes
\* and the edges that it had before the call.
C37_FailedRelationshipLeavesGraph ==
    (op.kind \in EdgeOps /\ op.status = "error") =>
        /\ graph.nodes = op.graph.nodes
        /\ graph.edges = op.graph.edges

\* C38: no step removes a node of the graph, changes its type or value, or
\* removes or relabels an edge: every (source, target, relation) edge of the
\* graph is an edge of the graph after the step.
C38_GraphOnlyGrows ==
    [][/\ DOMAIN graph.nodes \subseteq DOMAIN graph'.nodes
       /\ \A n \in DOMAIN graph.nodes : graph'.nodes[n] = graph.nodes[n]
       /\ graph.edges \subseteq graph'.edges
      ]_vars

\* ------------------------------------------------------------------ claims: relocation during extraction

\* the task of a personal thought of user u waits for the extractor
PendingFor(ts, tk, u) ==
    \E i \in 1..Len(ts) :
        /\ Personal(ts[i], u)
        /\ ts[i].id \in DOMAIN tk
        /\ tk[ts[i].id].status = "pending"

\* C39: when on_dept_transfer(u, old, new) ran while the extraction of a
\* personal thought of u was pending, and every extraction has finished since,
\* the store holds no personal thought of u with an entity that has an
\* outgoing BELONGS_TO edge to Department:<old>.
C39_SanitizationCoversPending ==
    ( /\ op.kind = "on_dept_transfer"
      /\ PendingFor(op.thoughts, op.tasks, op.user_id)
      /\ \A id \in DOMAIN tasks : tasks[id].status # "pending" ) =>
        \A i \in 1..Len(thoughts) :
            ~(Personal(thoughts[i], op.user_id)
              /\ Contaminated(graph, thoughts[i], op.old_dept_id))

====
